---- MODULE Spec2Model ----
(***************************************************************************)
(* A model of the sync_file crate: the positional traits ReadAt / WriteAt  *)
(* (src/src/lib.rs), the cursor Adapter (src/src/adapter.rs) and the file  *)
(* handles RandomAccessFile / SyncFile (src/src/file.rs).                  *)
(*                                                                         *)
(* Integers are scaled down: u64 is 0..MaxU64 and arithmetic that the code *)
(* leaves unchecked wraps modulo MaxU64 + 1.                               *)
(***************************************************************************)
EXTENDS Integers, Sequences, FiniteSets, TLC

\* ------------------------------------------------------------------ bounds
MaxU64 == 5
MaxFileLen == 2
MaxBuf == 2

\* ------------------------------------------------------------------- types
U64 == 0..MaxU64
I64Max == (MaxU64 - 1) \div 2
I64Min == 0 - ((MaxU64 + 1) \div 2)
I64 == I64Min..I64Max
\* usize of a target whose pointers are narrower than 64 bits
UsizeMax == MaxU64 - 1
Byte == {0, 1}
Clones == {1, 2}

Min(a, b) == IF a <= b THEN a ELSE b
Max(a, b) == IF a >= b THEN a ELSE b

SeqsUpTo(S, n) == UNION {[1..k -> S] : k \in 0..n}
Contents == SeqsUpTo(Byte, MaxFileLen)
Bufs == SeqsUpTo(Byte, MaxBuf)
BufLens == 0..MaxBuf
\* one buffer of each length, for the vectored writes
VecBufs == {b \in Bufs : \A i \in 1..Len(b) : b[i] = i % 2}
\* a slice of at most two buffers
IoVecs(S) == {<<>>} \cup {<<a>> : a \in S} \cup {<<a, b>> : a \in S, b \in S}

\* io::SeekFrom
Start(n) == [k |-> "Start", n |-> n]
Current(n) == [k |-> "Current", n |-> n]
End(n) == [k |-> "End", n |-> n]
SeekFrom == {Start(n) : n \in U64} \cup {Current(n) : n \in I64} \cup {End(n) : n \in I64}
NoPos == [k |-> "none", n |-> 0]

\* io::Result
Ok(v) == [ok |-> TRUE, val |-> v, err |-> "none"]
Err(e) == [ok |-> FALSE, val |-> 0, err |-> e]
NoRes == [ok |-> FALSE, val |-> 0, err |-> "nocall"]

\* Errors of the platform's file calls (any OS error; EINTR is Interrupted)
PlatformErrors == {"Other", "Interrupted"}

invalid_seek == Err("InvalidInput")
unsupported == Err("Unsupported")
fill_buffer_error == Err("UnexpectedEof")
write_buffer_error == Err("WriteZero")

\* ----------------------------------------------------------------- state
VARIABLES
  kind,             \* the adapter's inner value: "SyncFile", "Slice" or "Sink"
  strategy,         \* FileRepr chosen by cfg: "native" or "fallback"
  content,          \* the bytes of the file (or of the byte slice)
  cursor,           \* the OS cursor of the File behind RandomAccessFile
  lock,             \* owner of the fallback Mutex<File>, 0 when free
  alive,            \* the SyncFile clones that exist
  offset,           \* offset[i]: the Adapter.offset of clone i
  pc,               \* pc[i]: where clone i's thread is inside an operation
  res,              \* res[i]: bytes collected by clone i's read_all loop
  last,             \* the last completed operation and what it returned
  arc,              \* the Arc around the RandomAccessFile: owners, and closes of the File
  access            \* how the File was opened: "read", "write" or "read_write"

vars == <<kind, strategy, content, cursor, lock, alive, offset, pc, res, last, arc, access>>
buildVars == <<kind, strategy, access>>

\* --------------------------------------------------------- byte helpers
Take(s, n) == SubSeq(s, 1, Min(n, Len(s)))
Slice(s, from, n) == SubSeq(s, from + 1, from + n)
\* the file after d has been stored at byte offset off (a gap reads as 0)
Overwrite(c, off, d) ==
  IF d = <<>> THEN c
  ELSE [i \in 1..Max(Len(c), off + Len(d)) |->
          IF i > off /\ i <= off + Len(d) THEN d[i - off]
          ELSE IF i <= Len(c) THEN c[i] ELSE 0]

\* (variant) the sum taken modulo 2^64 instead of checked
wrapping_add_signed(a, d) == (a + d) % (MaxU64 + 1)

\* u64::checked_add_signed: None is -1
checked_add_signed(a, d) == IF a + d >= 0 /\ a + d <= MaxU64 THEN a + d ELSE -1

\* `self.offset += n as u64` is unchecked: on overflow the build either wraps
\* (release profile) or panics before the store (overflow checks on)
AddAssign(a, n) ==
  IF a + n <= MaxU64 THEN {[panic |-> FALSE, offset |-> a + n]}
  ELSE {[panic |-> TRUE, offset |-> a], [panic |-> FALSE, offset |-> (a + n) % (MaxU64 + 1)]}

\* ------------------------------------------------- <[u8] as ReadAt>
\* (variant) `offset as usize`: the high bits are dropped
as_usize(o) == o % (UsizeMax + 1)

\* offset.try_into().ok(): None is -1
try_into_usize(o) == IF o <= UsizeMax THEN o ELSE -1

slice_read_at(B, len, off) ==
  LET o == try_into_usize(off) IN
  IF o = -1 \/ o > Len(B) THEN [res |-> Ok(0), data |-> <<>>]
  ELSE LET n == Min(Len(B) - o, len) IN [res |-> Ok(n), data |-> Slice(B, o, n)]

\* (variant) what is there is copied and the call succeeds
slice_read_exact_at_short(B, len, off) == [res |-> Ok(0), data |-> slice_read_at(B, len, off).data]

slice_read_exact_at(B, len, off) ==
  LET o == try_into_usize(off) IN
  IF o = -1 \/ o > Len(B) \/ Len(B) - o < len THEN [res |-> fill_buffer_error, data |-> <<>>]
  ELSE [res |-> Ok(0), data |-> Slice(B, o, len)]

\* ------------------------------------------------- default vectored calls
\* bufs.iter().find(|b| !b.is_empty()), or the empty buffer
RECURSIVE first_nonempty(_)
first_nonempty(bufs) ==
  IF bufs = <<>> THEN <<>>
  ELSE IF Head(bufs) # <<>> THEN Head(bufs) ELSE first_nonempty(Tail(bufs))

RECURSIVE first_nonzero(_)
first_nonzero(lens) ==
  IF lens = <<>> THEN 0
  ELSE IF Head(lens) # 0 THEN Head(lens) ELSE first_nonzero(Tail(lens))

RECURSIVE Concat(_)
Concat(bufs) == IF bufs = <<>> THEN <<>> ELSE Head(bufs) \o Concat(Tail(bufs))

RECURSIVE Sum(_)
Sum(lens) == IF lens = <<>> THEN 0 ELSE Head(lens) + Sum(Tail(lens))


\* ------------------------------------------------- <io::Sink as WriteAt>
sink_write_at(buf, off) == Ok(Len(buf))
sink_write_all_at(buf, off) == Ok(0)
sink_write_vectored_at(bufs, off) == Ok(Len(Concat(bufs)))

\* ------------------------------------------- the platform's std::fs::File
\* File::open gives a File open for reading only; File::create one open for
\* writing only, truncated to length 0; a File made with OpenOptions and
\* converted with From<File> may be open for both.
Access == {"read", "write", "read_write"}
File_open(c) == [access |-> "read", content |-> c]
File_create(c) == [access |-> "write", content |-> <<>>]
can_read == access \in {"read", "read_write"}
can_write == access \in {"write", "read_write"}
\* a transfer the File was not opened for is refused by the platform (EBADF)
bad_descriptor == Err("Uncategorized")

\* One positional read (pread, seek_read, fd_pread) or a read at the cursor:
\* a short read is allowed, 0 only at end of file or for an empty buffer.
File_pread(c, len, off) ==
  LET avail == IF off < Len(c) THEN Len(c) - off ELSE 0
      most == Min(len, avail)
  IN IF ~can_read THEN {[res |-> bad_descriptor, data |-> <<>>]}
     ELSE {[res |-> Ok(n), data |-> Slice(c, off, n)] : n \in (IF most = 0 THEN {0} ELSE 1..most)}
          \cup {[res |-> Err(e), data |-> <<>>] : e \in PlatformErrors}

\* One positional write: a short write is allowed; the file cannot grow past
\* MaxFileLen (the platform then fails, as with EFBIG or a full disk).
File_pwrite(c, buf, off) ==
  LET room == IF off < MaxFileLen THEN MaxFileLen - off ELSE 0
      most == Min(Len(buf), room)
  IN IF ~can_write THEN {[res |-> bad_descriptor, content |-> c]}
     ELSE (IF buf = <<>> THEN {[res |-> Ok(0), content |-> c]}
           ELSE {[res |-> Ok(n), content |-> Overwrite(c, off, Take(buf, n))] : n \in 1..most})
          \cup {[res |-> Err(e), content |-> c] : e \in PlatformErrors}

\* File::seek on the OS cursor, as the crate uses it: Start(n) and End(d)
File_seek(c, cur, pos) ==
  (IF pos.k = "Start" THEN {[res |-> Ok(pos.n), cursor |-> pos.n]}
   ELSE IF pos.k = "End" /\ Len(c) + pos.n >= 0
        THEN {[res |-> Ok(Len(c) + pos.n), cursor |-> Len(c) + pos.n]}
   ELSE {})
  \cup {[res |-> Err("Other"), cursor |-> cur]}

\* A full read of len bytes by repeated reads (std's read_exact / read_exact_at):
\* k is the number of bytes transferred before the loop ended.
File_read_exact(c, len, off) ==
  LET avail == IF off < Len(c) THEN Len(c) - off ELSE 0
  IN IF len > 0 /\ ~can_read THEN {[res |-> bad_descriptor, data |-> <<>>, k |-> 0]}
     ELSE (IF len <= avail THEN {[res |-> Ok(0), data |-> Slice(c, off, len), k |-> len]}
           ELSE {[res |-> fill_buffer_error, data |-> <<>>, k |-> avail]})
          \cup (IF len = 0 THEN {}
                ELSE {[res |-> Err("Other"), data |-> <<>>, k |-> k] : k \in 0..Min(len - 1, avail)})

\* (variant) a File in append mode: every write lands at the end of the file
File_write_all_append(c, buf, off) ==
  IF Len(c) + Len(buf) <= MaxFileLen
  THEN {[res |-> Ok(0), content |-> c \o buf, k |-> Len(buf)]}
  ELSE {[res |-> Err("Other"), content |-> c, k |-> 0]}

\* A full write of buf by repeated writes (std's write_all / write_all_at)
File_write_all(c, buf, off) ==
  LET room == IF off < MaxFileLen THEN MaxFileLen - off ELSE 0
  IN IF buf # <<>> /\ ~can_write THEN {[res |-> bad_descriptor, content |-> c, k |-> 0]}
     ELSE (IF Len(buf) <= room \/ buf = <<>>
           THEN {[res |-> Ok(0), content |-> Overwrite(c, off, buf), k |-> Len(buf)]}
           ELSE {})
          \cup (IF buf = <<>> THEN {}
                ELSE {[res |-> Err("Other"), content |-> Overwrite(c, off, Take(buf, k)), k |-> k] :
                        k \in 0..Min(Len(buf) - 1, room)})

\* ------------------------------------------------------ RandomAccessFile
\* Every outcome of one call as a whole: [res, data, content, cursor].
\* On the fallback path the call runs under the Mutex: seek(Start(offset))?,
\* then the transfer at the cursor, which the transfer advances.
\* (variant) the fallback takes the Mutex with try_lock and reports WouldBlock
Positioned_try_lock(st, cur, off) ==
  IF st = "native" THEN {[res |-> Ok(off), cursor |-> cur]}
  ELSE File_seek(<<>>, cur, Start(off)) \cup {[res |-> Err("WouldBlock"), cursor |-> cur]}

Positioned(st, cur, off) ==
  IF st = "native" THEN {[res |-> Ok(off), cursor |-> cur]}
  ELSE File_seek(<<>>, cur, Start(off))

\* (variant) the read is made where the OS cursor stands
RandomAccessFile_read_at_cursor(st, c, cur, len, off) ==
  {[res |-> o.res, data |-> o.data, content |-> c, cursor |-> cur + o.res.val] :
     o \in File_pread(c, len, cur)}

RandomAccessFile_read_at(st, c, cur, len, off) ==
  UNION {IF ~s.res.ok THEN {[res |-> s.res, data |-> <<>>, content |-> c, cursor |-> s.cursor]}
         ELSE {[res |-> o.res, data |-> o.data, content |-> c,
                cursor |-> IF st = "native" THEN cur ELSE off + o.res.val] :
                 o \in File_pread(c, len, off)} :
         s \in Positioned(st, cur, off)}

RandomAccessFile_write_at(st, c, cur, buf, off) ==
  UNION {IF ~s.res.ok THEN {[res |-> s.res, data |-> <<>>, content |-> c, cursor |-> s.cursor]}
         ELSE {[res |-> o.res, data |-> <<>>, content |-> o.content,
                cursor |-> IF st = "native" THEN cur ELSE off + o.res.val] :
                 o \in File_pwrite(c, buf, off)} :
         s \in Positioned(st, cur, off)}

RandomAccessFile_read_exact_at(st, c, cur, len, off) ==
  UNION {IF ~s.res.ok THEN {[res |-> s.res, data |-> <<>>, content |-> c, cursor |-> s.cursor]}
         ELSE {[res |-> o.res, data |-> o.data, content |-> c,
                cursor |-> IF st = "native" THEN cur ELSE off + o.k] :
                 o \in File_read_exact(c, len, off)} :
         s \in Positioned(st, cur, off)}

RandomAccessFile_write_all_at(st, c, cur, buf, off) ==
  UNION {IF ~s.res.ok THEN {[res |-> s.res, data |-> <<>>, content |-> c, cursor |-> s.cursor]}
         ELSE {[res |-> o.res, data |-> <<>>, content |-> o.content,
                cursor |-> IF st = "native" THEN cur ELSE off + o.k] :
                 o \in File_write_all(c, buf, off)} :
         s \in Positioned(st, cur, off)}

\* native: the trait's default (first non-empty buffer); fallback: File::read_vectored
RandomAccessFile_read_vectored_at(st, c, cur, lens, off) ==
  RandomAccessFile_read_at(st, c, cur, IF st = "native" THEN first_nonzero(lens) ELSE Sum(lens), off)

RandomAccessFile_write_vectored_at(st, c, cur, bufs, off) ==
  RandomAccessFile_write_at(st, c, cur, IF st = "native" THEN first_nonempty(bufs) ELSE Concat(bufs), off)

\* with_file(|mut f| f.seek(pos)): [res, cursor]
RandomAccessFile_with_file_seek(c, cur, pos) == File_seek(c, cur, pos)

\* -------------------------------------------- the Adapter's inner value T
\* Every outcome [res, data, content, cursor] of a positional call on the inner
\* value of the adapter: Arc<RandomAccessFile> (SyncFile), a byte slice, io::Sink.
Untouched(r, d) == [res |-> r, data |-> d, content |-> content, cursor |-> cursor]

inner_read_at(len, off) ==
  IF kind = "SyncFile" THEN RandomAccessFile_read_at(strategy, content, cursor, len, off)
  ELSE LET o == slice_read_at(content, len, off) IN {Untouched(o.res, o.data)}

inner_read_exact_at(len, off) ==
  IF kind = "SyncFile" THEN RandomAccessFile_read_exact_at(strategy, content, cursor, len, off)
  ELSE LET o == slice_read_exact_at(content, len, off) IN {Untouched(o.res, o.data)}

inner_read_vectored_at(lens, off) ==
  IF kind = "SyncFile" THEN RandomAccessFile_read_vectored_at(strategy, content, cursor, lens, off)
  ELSE LET o == slice_read_at(content, first_nonzero(lens), off) IN {Untouched(o.res, o.data)}

inner_write_at(buf, off) ==
  IF kind = "SyncFile" THEN RandomAccessFile_write_at(strategy, content, cursor, buf, off)
  ELSE {Untouched(sink_write_at(buf, off), <<>>)}

inner_write_all_at(buf, off) ==
  IF kind = "SyncFile" THEN RandomAccessFile_write_all_at(strategy, content, cursor, buf, off)
  ELSE {Untouched(sink_write_all_at(buf, off), <<>>)}

inner_write_vectored_at(bufs, off) ==
  IF kind = "SyncFile" THEN RandomAccessFile_write_vectored_at(strategy, content, cursor, bufs, off)
  ELSE {Untouched(sink_write_vectored_at(bufs, off), <<>>)}

\* ---------------------------------------------------------------- Adapter
\* What a handler leaves behind, given the positional call's outcome o made at
\* offset `at`: the stored offset, the returned io::Result, or a panic.
Done(at, o, off, ret) ==
  {[at |-> at, res |-> o.res, data |-> o.data, content |-> o.content, cursor |-> o.cursor,
    offset |-> off, ret |-> ret, panic |-> FALSE]}

\* `let n = call?; self.offset += n as u64; Ok(n)`
Advance(at, o, off, n) ==
  {[at |-> at, res |-> o.res, data |-> o.data, content |-> o.content, cursor |-> o.cursor,
    offset |-> a.offset, ret |-> IF a.panic THEN NoRes ELSE o.res, panic |-> a.panic] :
     a \in AddAssign(off, n)}

\* the `?` and the `+=` that follow the positional call
Folded(at, o, off, n) ==
  IF o.res.ok THEN Advance(at, o, off, n) ELSE Done(at, o, off, o.res)

Adapter_read(off, len) ==
  UNION {Folded(off, o, off, o.res.val) :
     o \in inner_read_at(len, off)}

Adapter_read_exact(off, len) ==
  UNION {Folded(off, o, off, len) :
     o \in inner_read_exact_at(len, off)}

Adapter_read_vectored(off, lens) ==
  UNION {Folded(off, o, off, o.res.val) :
     o \in inner_read_vectored_at(lens, off)}

Adapter_write(off, buf) ==
  UNION {Folded(off, o, off, o.res.val) :
     o \in inner_write_at(buf, off)}

Adapter_write_all(off, buf) ==
  UNION {Folded(off, o, off, Len(buf)) :
     o \in inner_write_all_at(buf, off)}

Adapter_write_vectored(off, bufs) ==
  UNION {Folded(off, o, off, o.res.val) :
     o \in inner_write_vectored_at(bufs, off)}

\* no positional call is made: at is -1
NoCall(off, ret) ==
  [at |-> -1, res |-> NoRes, data |-> <<>>, content |-> content, cursor |-> cursor,
   offset |-> off, ret |-> ret, panic |-> FALSE]

\* Adapter::new: `Self { offset: 0, inner }`
Adapter_new == 0

\* (variant) End(d) taken as an offset from the current position
Adapter_seek_end_as_current(off, pos) ==
  IF pos.k = "Start" THEN NoCall(pos.n, Ok(pos.n))
  ELSE LET n == checked_add_signed(off, pos.n) IN
       IF n = -1 THEN NoCall(off, invalid_seek) ELSE NoCall(n, Ok(n))

\* (variant) the returned value is read before the new offset is stored
Adapter_seek_returns_old(off, pos) ==
  IF pos.k = "Start" THEN NoCall(pos.n, Ok(off))
  ELSE IF pos.k = "Current"
       THEN LET n == checked_add_signed(off, pos.n) IN
            IF n = -1 THEN NoCall(off, invalid_seek) ELSE NoCall(n, Ok(off))
  ELSE NoCall(off, unsupported)

Adapter_seek(off, pos) ==
  IF pos.k = "Start" THEN NoCall(pos.n, Ok(pos.n))
  ELSE IF pos.k = "Current"
       THEN LET n == checked_add_signed(off, pos.n) IN
            IF n = -1 THEN NoCall(off, invalid_seek) ELSE NoCall(n, Ok(n))
  ELSE NoCall(off, unsupported)

\* (variant) rewind as a relative seek that refuses to move from offset 0
Adapter_rewind_keeps(off) == IF off = 0 THEN NoCall(off, invalid_seek) ELSE NoCall(off - 1, Ok(0))

Adapter_rewind(off) == NoCall(0, Ok(0))

Adapter_stream_position(off) == NoCall(off, Ok(off))

Adapter_offset(off) == off

\* --------------------------------------------------------------- SyncFile
\* End(_) asks the platform through with_file, then seeks to Start(that offset)
\* (variant) the platform's answer applied as a relative seek
SyncFile_seek_resolved_as_current(off, s) ==
  IF s.res.ok
  THEN [Adapter_seek(off, Current(s.res.val)) EXCEPT !.cursor = s.cursor, !.res = s.res]
  ELSE [NoCall(off, s.res) EXCEPT !.cursor = s.cursor, !.res = s.res]

\* (variant) the platform's cursor is stored before its answer is examined
SyncFile_seek_resolved_stores_first(off, s) ==
  IF s.res.ok
  THEN [Adapter_seek(off, Start(s.res.val)) EXCEPT !.cursor = s.cursor, !.res = s.res]
  ELSE [NoCall(s.cursor, s.res) EXCEPT !.cursor = s.cursor, !.res = s.res]

\* what follows with_file's answer s: `?`, then self.0.seek(Start(offset))
SyncFile_seek_resolved(off, s) ==
  IF s.res.ok
  THEN [Adapter_seek(off, Start(s.res.val)) EXCEPT !.cursor = s.cursor, !.res = s.res]
  ELSE [NoCall(off, s.res) EXCEPT !.cursor = s.cursor, !.res = s.res]

SyncFile_seek(off, pos) ==
  IF pos.k = "End"
  THEN {SyncFile_seek_resolved(off, s) : s \in RandomAccessFile_with_file_seek(content, cursor, pos)}
  ELSE {Adapter_seek(off, pos)}

\* SyncFile::from(file) is Self(Adapter::new(Arc::new(file)))
SyncFile_from == Adapter_new

\* Arc::new(file): one owner, the File is open
Arc_new == [strong |-> 1, released |-> 0]

\* Arc::clone: one more owner of the same RandomAccessFile
Arc_clone(a) == [a EXCEPT !.strong = @ + 1]

\* (variant) every owner closes the File when it goes
Arc_drop_closes(a) == [strong |-> a.strong - 1, released |-> a.released + 1]

\* Drop for Arc: the last owner drops the RandomAccessFile, which closes the File
Arc_drop(a) ==
  IF a.strong = 1 THEN [strong |-> 0, released |-> a.released + 1]
  ELSE [a EXCEPT !.strong = @ - 1]

\* (variant) a clone that starts over at the beginning of the file
SyncFile_clone_rewound(off) == Adapter_new

\* #[derive(Clone)]: the clone's adapter is a copy of the offset (and of the Arc)
SyncFile_clone(off) == off

SyncFile_read(off, len) == Adapter_read(off, len)

SyncFile_read_exact(off, len) == Adapter_read_exact(off, len)

SyncFile_write(off, buf) == Adapter_write(off, buf)

SyncFile_write_all(off, buf) == Adapter_write_all(off, buf)

SyncFile_rewind(off) == Adapter_rewind(off)

SyncFile_stream_position(off) == Ok(Adapter_offset(off))

SyncFile_offset(off) == Adapter_offset(off)

\* --------------------------------- one adapter used by one thread (SpecAdapter)
Readable == kind \in {"SyncFile", "Slice"}
Writable == kind \in {"SyncFile", "Sink"}

Record(op, pos, len, pre, o) ==
  [op |-> op, who |-> 1, from |-> 0, pos |-> pos, len |-> len, pre |-> pre, at |-> o.at,
   res |-> o.res, ret |-> o.ret, panic |-> o.panic]

\* the handler's outcome o becomes the state
Apply(op, pos, len, o) ==
  /\ offset' = [offset EXCEPT ![1] = o.offset]
  /\ content' = o.content
  /\ cursor' = o.cursor
  /\ last' = Record(op, pos, len, offset[1], o)
  /\ UNCHANGED <<buildVars, arc, lock, alive, pc, res>>

Read ==
  /\ Readable
  /\ \E len \in BufLens : \E o \in Adapter_read(offset[1], len) : Apply("read", NoPos, len, o)

ReadExact ==
  /\ Readable
  /\ \E len \in BufLens : \E o \in Adapter_read_exact(offset[1], len) :
       Apply("read_exact", NoPos, len, o)

ReadVectored ==
  /\ Readable
  /\ \E lens \in IoVecs(BufLens) : \E o \in Adapter_read_vectored(offset[1], lens) :
       Apply("read_vectored", NoPos, Sum(lens), o)

Write ==
  /\ Writable
  /\ \E buf \in Bufs : \E o \in Adapter_write(offset[1], buf) : Apply("write", NoPos, Len(buf), o)

WriteAll ==
  /\ Writable
  /\ \E buf \in Bufs : \E o \in Adapter_write_all(offset[1], buf) :
       Apply("write_all", NoPos, Len(buf), o)

WriteVectored ==
  /\ Writable
  /\ \E bufs \in IoVecs(VecBufs) : \E o \in Adapter_write_vectored(offset[1], bufs) :
       Apply("write_vectored", NoPos, Len(Concat(bufs)), o)

Seek ==
  \E pos \in SeekFrom :
    \E o \in (IF kind = "SyncFile" THEN SyncFile_seek(offset[1], pos)
              ELSE {Adapter_seek(offset[1], pos)}) :
      Apply("seek", pos, 0, o)

Rewind ==
  Apply("rewind", NoPos, 0,
        IF kind = "SyncFile" THEN SyncFile_rewind(offset[1]) ELSE Adapter_rewind(offset[1]))

StreamPosition ==
  Apply("stream_position", NoPos, 0,
        IF kind = "SyncFile" THEN NoCall(offset[1], SyncFile_stream_position(offset[1]))
        ELSE Adapter_stream_position(offset[1]))

Offset ==
  Apply("offset", NoPos, 0,
        NoCall(offset[1], Ok(IF kind = "SyncFile" THEN SyncFile_offset(offset[1])
                             ELSE Adapter_offset(offset[1]))))

NoOp ==
  [op |-> "new", who |-> 1, from |-> 0, pos |-> NoPos, len |-> 0, pre |-> 0, at |-> -1, res |-> NoRes,
   ret |-> NoRes, panic |-> FALSE]

\* Adapter::new / SyncFile::from: offset 0. One thread uses the adapter, so
\* the calls run one after the other (the fallback Mutex is SpecReadAll's business).
InitAdapter ==
  /\ kind \in {"SyncFile", "Slice", "Sink"}
  /\ strategy = "native"
  /\ content \in (IF kind = "Sink" THEN {<<>>} ELSE Contents)
  /\ cursor = 0
  /\ lock = 0
  /\ alive = {1}
  /\ offset = [i \in Clones |-> Adapter_new]
  /\ pc = [i \in Clones |-> "idle"]
  /\ res = [i \in Clones |-> <<>>]
  /\ last = NoOp
  /\ arc = Arc_new
  /\ access = "read_write"

NextAdapter ==
  \/ Read
  \/ ReadExact
  \/ ReadVectored
  \/ Write
  \/ WriteAll
  \/ WriteVectored
  \/ Seek
  \/ Rewind
  \/ StreamPosition
  \/ Offset

SpecAdapter == InitAdapter /\ [][NextAdapter]_vars

\* -------------------------------- clones of one SyncFile on threads (Spec)
\* Each clone is owned by one thread; a step is one whole call by one clone.
\* The clones share the RandomAccessFile (content, OS cursor) through the Arc;
\* `&mut self` keeps a clone's adapter to the thread that calls it.

\* (variant) one adapter behind the Arc: every clone sees the stored offset
StoreShared(i, o) == [j \in Clones |-> o]

\* SyncFile(Adapter<Arc<RandomAccessFile>>): the offset is stored in the clone's own adapter
Store(i, o) == [offset EXCEPT ![i] = o]

\* what clone i writes: len bytes that tell the clones apart
WriteBuf(i, len) == [k \in 1..len |-> i % 2]

\* the call's outcome o becomes the state; `last` keeps which clone called
Commit(i, o) ==
  /\ offset' = Store(i, o.offset)
  /\ content' = o.content
  /\ cursor' = o.cursor
  /\ last' = [NoOp EXCEPT !.op = "call", !.who = i]
  /\ UNCHANGED <<buildVars, arc, lock, alive, pc, res>>

SyncRead(i) ==
  /\ i \in alive
  /\ \E len \in BufLens : \E o \in SyncFile_read(offset[i], len) : Commit(i, o)

SyncReadExact(i) ==
  /\ i \in alive
  /\ \E len \in BufLens : \E o \in SyncFile_read_exact(offset[i], len) :
       Commit(i, o)

SyncWrite(i) ==
  /\ i \in alive
  /\ \E len \in BufLens : \E o \in SyncFile_write(offset[i], WriteBuf(i, len)) :
       Commit(i, o)

SyncWriteAll(i) ==
  /\ i \in alive
  /\ \E len \in BufLens : \E o \in SyncFile_write_all(offset[i], WriteBuf(i, len)) :
       Commit(i, o)

SyncSeek(i) ==
  /\ i \in alive
  /\ \E pos \in SeekFrom : \E o \in SyncFile_seek(offset[i], pos) : Commit(i, o)

SyncRewind(i) ==
  /\ i \in alive
  /\ Commit(i, SyncFile_rewind(offset[i]))

\* clone i is cloned into the free slot j; the Arc gets one more owner
Clone(i, j) ==
  /\ i \in alive
  /\ j \notin alive
  /\ alive' = alive \cup {j}
  /\ offset' = Store(j, SyncFile_clone(offset[i]))
  /\ last' = [NoOp EXCEPT !.op = "clone", !.who = j, !.from = i]
  /\ arc' = Arc_clone(arc)
  /\ UNCHANGED <<buildVars, content, cursor, lock, pc, res>>

\* clone i is dropped with its Arc; its slot is free again
Drop(i) ==
  /\ i \in alive
  /\ alive' = alive \ {i}
  /\ offset' = Store(i, Adapter_new)
  /\ last' = [NoOp EXCEPT !.op = "drop", !.who = i]
  /\ arc' = Arc_drop(arc)
  /\ UNCHANGED <<buildVars, content, cursor, lock, pc, res>>

Init ==
  /\ kind = "SyncFile"
  /\ strategy \in {"native", "fallback"}
  /\ content \in Contents
  /\ cursor = 0
  /\ lock = 0
  /\ alive = {1}
  /\ offset = [i \in Clones |-> IF i = 1 THEN SyncFile_from ELSE Adapter_new]
  /\ pc = [i \in Clones |-> "idle"]
  /\ res = [i \in Clones |-> <<>>]
  /\ last = NoOp
  /\ arc = Arc_new
  /\ access = "read_write"

Next ==
  \E i \in Clones :
    \/ SyncRead(i)
    \/ SyncReadExact(i)
    \/ SyncWrite(i)
    \/ SyncWriteAll(i)
    \/ SyncSeek(i)
    \/ SyncRewind(i)
    \/ \E j \in Clones : Clone(i, j)
    \/ Drop(i)

Spec == Init /\ [][Next]_vars

\* --------------------- two clones, each reading to end-of-file (SpecReadAll)
\* The crate's example: a SyncFile and its clone are handed to two threads and
\* each runs read_all, a loop of read calls on a one-byte buffer that ends at
\* the first Ok(0). Clone 1 may first seek(End(d)) from any offset. Here the
\* steps of a call are separate: the positional call on the shared file (with
\* the lock, seek and transfer of the fallback strategy) and the adapter's
\* update of its own offset when the call has returned.
NoSeek == I64Max + 1

At(st, d, r, data) == [st |-> st, d |-> d, r |-> r, data |-> data]

Goto(i, st, r, data) == pc' = [pc EXCEPT ![i] = At(st, pc[i].d, r, data)]

\* (variant) no Mutex around the file: the lock is never found taken
lock_never_held(l) == TRUE

\* self.0.lock(): the Mutex is free
lock_acquirable(l) == l = 0

\* native strategy: read_at is one positional read, the OS cursor is not used
ReadCall(i) ==
  /\ pc[i].st = "loop"
  /\ strategy = "native"
  /\ \E o \in RandomAccessFile_read_at(strategy, content, cursor, 1, offset[i]) :
       Goto(i, "returned", o.res, o.data)
  /\ UNCHANGED <<buildVars, arc, content, cursor, lock, alive, offset, res, last>>

\* fallback strategy: read_at and with_file take the Mutex ...
Lock(i) ==
  /\ pc[i].st \in {"loop", "seek"}
  /\ strategy = "fallback"
  /\ lock_acquirable(lock)
  /\ lock' = i
  /\ Goto(i, IF pc[i].st = "loop" THEN "locked" ELSE "seek_locked", NoRes, <<>>)
  /\ UNCHANGED <<buildVars, arc, content, cursor, alive, offset, res, last>>

\* ... read_at moves the shared OS cursor to the offset (`?` drops the guard) ...
ReadSeek(i) ==
  /\ pc[i].st = "locked"
  /\ \E s \in File_seek(content, cursor, Start(offset[i])) :
       /\ cursor' = s.cursor
       /\ IF s.res.ok
          THEN Goto(i, "positioned", NoRes, <<>>) /\ lock' = lock
          ELSE Goto(i, "returned", s.res, <<>>) /\ lock' = 0
  /\ UNCHANGED <<buildVars, arc, content, alive, offset, res, last>>

\* ... and reads there; the cursor moves by what was read; the guard is dropped
ReadTransfer(i) ==
  /\ pc[i].st = "positioned"
  /\ \E o \in File_pread(content, 1, cursor) :
       /\ cursor' = (IF o.res.ok THEN cursor + o.res.val ELSE cursor)
       /\ Goto(i, "returned", o.res, o.data)
  /\ lock' = 0
  /\ UNCHANGED <<buildVars, arc, content, alive, offset, res, last>>

\* Adapter::read after the call (`?`, `+=`), then read_all's loop body
ReadReturn(i) ==
  /\ pc[i].st = "returned"
  /\ \E f \in Folded(offset[i], Untouched(pc[i].r, pc[i].data), offset[i], pc[i].r.val) :
       /\ offset' = [offset EXCEPT ![i] = f.offset]
       /\ IF ~f.ret.ok THEN Goto(i, "failed", f.ret, <<>>) /\ res' = res
          ELSE IF f.ret.val = 0 THEN Goto(i, "done", f.ret, <<>>) /\ res' = res
          ELSE Goto(i, "loop", NoRes, <<>>) /\ res' = [res EXCEPT ![i] = @ \o f.data]
  /\ UNCHANGED <<buildVars, arc, content, cursor, lock, alive, last>>

\* SyncFile::seek(End(d)): with_file runs File::seek on the shared file
SeekCall(i) ==
  /\ \/ pc[i].st = "seek" /\ strategy = "native"
     \/ pc[i].st = "seek_locked"
  /\ \E s \in RandomAccessFile_with_file_seek(content, cursor, End(pc[i].d)) :
       /\ cursor' = s.cursor
       /\ Goto(i, "sought", s.res, <<>>)
  /\ lock' = (IF strategy = "fallback" THEN 0 ELSE lock)
  /\ UNCHANGED <<buildVars, arc, content, alive, offset, res, last>>

\* ... and the adapter seeks to Start(the offset with_file returned)
SeekReturn(i) ==
  /\ pc[i].st = "sought"
  /\ LET o == SyncFile_seek_resolved(offset[i], [res |-> pc[i].r, cursor |-> cursor])
     IN /\ offset' = [offset EXCEPT ![i] = o.offset]
        /\ Goto(i, IF o.ret.ok THEN "loop" ELSE "failed", o.ret, <<>>)
  /\ UNCHANGED <<buildVars, arc, content, cursor, lock, alive, res, last>>

InitReadAll ==
  /\ kind = "SyncFile"
  /\ strategy \in {"native", "fallback"}
  /\ content \in Contents
  /\ cursor = 0
  /\ lock = 0
  /\ alive = Clones
  /\ \E d \in I64 \cup {NoSeek} :
       pc = [i \in Clones |-> IF i = 1 /\ d # NoSeek THEN At("seek", d, NoRes, <<>>)
                              ELSE At("loop", NoSeek, NoRes, <<>>)]
  /\ offset \in [Clones -> U64]
  /\ \A i \in Clones : pc[i].d = NoSeek => offset[i] = 0
  /\ res = [i \in Clones |-> <<>>]
  /\ last = NoOp
  /\ arc = Arc_clone(Arc_new)
  /\ access = "read_write"

NextReadAll ==
  \E i \in Clones :
    \/ ReadCall(i)
    \/ Lock(i)
    \/ ReadSeek(i)
    \/ ReadTransfer(i)
    \/ ReadReturn(i)
    \/ SeekCall(i)
    \/ SeekReturn(i)

SpecReadAll == InitReadAll /\ [][NextReadAll]_vars

\* ------------------------- one positional call, argument by argument (SpecPositional)
\* A value that implements ReadAt / WriteAt (a byte slice, io::Empty, io::Sink,
\* a RandomAccessFile of either strategy) receives one positional call. The
\* initial state holds the call and its arguments in `last`, with the
\* destination buffers as they are before the call; the call's step stores
\* the result and the buffers as they are after it.

\* buf[..len].copy_from_slice(&this[..len])
copy_from_slice(buf, data) ==
  [i \in 1..Len(buf) |-> IF i <= Len(data) THEN data[i] ELSE buf[i]]

\* (variant) bufs.first(), whether it is empty or not
first_index(bufs) == IF bufs = <<>> THEN 0 ELSE 1

\* position of bufs.iter().find(|b| !b.is_empty()); 0 stands for `&mut [][..]`
first_nonempty_index(bufs) ==
  IF \E i \in 1..Len(bufs) : bufs[i] # <<>>
  THEN CHOOSE i \in 1..Len(bufs) : bufs[i] # <<>> /\ \A j \in 1..(i - 1) : bufs[j] = <<>>
  ELSE 0

\* File::read_vectored: the bytes read fill the buffers in order
RECURSIVE Scatter(_, _)
Scatter(bufs, data) ==
  IF bufs = <<>> THEN <<>>
  ELSE <<copy_from_slice(Head(bufs), data)>>
       \o Scatter(Tail(bufs), SubSeq(data, Min(Len(Head(bufs)), Len(data)) + 1, Len(data)))

empty_read_at(len, off) == [res |-> Ok(0), data |-> <<>>]

empty_read_vectored_at(bufs, off) == Ok(0)

\* self.read_at(buf, offset) of the value that receives the call: [res, data, content, cursor]
ReadAt_read_at(len, off) ==
  IF kind = "Empty" THEN LET o == empty_read_at(len, off) IN {Untouched(o.res, o.data)}
  ELSE inner_read_at(len, off)

\* ReadAt::read_vectored_at as provided by the trait
default_read_vectored_at(bufs, off) ==
  LET i == first_nonempty_index(bufs)
      len == IF i = 0 THEN 0 ELSE Len(bufs[i])
  IN {[res |-> o.res, content |-> o.content, cursor |-> o.cursor,
       after |-> IF i = 0 THEN bufs ELSE [bufs EXCEPT ![i] = copy_from_slice(@, o.data)]] :
        o \in ReadAt_read_at(len, off)}

\* WriteAt::write_vectored_at as provided by the trait
default_write_vectored_at(bufs, off) ==
  LET i == first_nonempty_index(bufs)
      buf == IF i = 0 THEN <<>> ELSE bufs[i]
  IN {[res |-> o.res, content |-> o.content, cursor |-> o.cursor, after |-> bufs] :
        o \in inner_write_at(buf, off)}

\* read_vectored_at of the receiver: io::Empty and the fallback RandomAccessFile
\* have their own, the others the trait's
ReadAt_read_vectored_at(bufs, off) ==
  IF kind = "Empty"
  THEN {[res |-> empty_read_vectored_at(bufs, off), content |-> content, cursor |-> cursor,
         after |-> bufs]}
  ELSE IF kind = "SyncFile" /\ strategy = "fallback"
  THEN {[res |-> o.res, content |-> o.content, cursor |-> o.cursor,
         after |-> Scatter(bufs, o.data)] :
          o \in RandomAccessFile_read_vectored_at(strategy, content, cursor,
                                                  [k \in 1..Len(bufs) |-> Len(bufs[k])], off)}
  ELSE default_read_vectored_at(bufs, off)

WriteAt_write_vectored_at(bufs, off) ==
  IF kind = "Sink" \/ (kind = "SyncFile" /\ strategy = "fallback")
  THEN {[res |-> o.res, content |-> o.content, cursor |-> o.cursor, after |-> bufs] :
          o \in inner_write_vectored_at(bufs, off)}
  ELSE default_write_vectored_at(bufs, off)

Call(op, off, bufs) ==
  [st |-> "called", op |-> op, off |-> off, before |-> bufs, after |-> bufs, res |-> NoRes,
   content0 |-> content]

Returned(o) ==
  /\ last' = [last EXCEPT !.st = "returned", !.res = o.res, !.after = o.after]
  /\ content' = o.content
  /\ cursor' = o.cursor
  /\ UNCHANGED <<buildVars, arc, lock, alive, offset, pc, res>>

ReadAtCall ==
  /\ last.st = "called" /\ last.op = "read_at"
  /\ \E o \in ReadAt_read_at(Len(last.before[1]), last.off) :
       Returned([res |-> o.res, content |-> o.content, cursor |-> o.cursor,
                 after |-> <<copy_from_slice(last.before[1], o.data)>>])

ReadExactAtCall ==
  /\ last.st = "called" /\ last.op = "read_exact_at"
  /\ \E o \in inner_read_exact_at(Len(last.before[1]), last.off) :
       Returned([res |-> o.res, content |-> o.content, cursor |-> o.cursor,
                 after |-> <<copy_from_slice(last.before[1], o.data)>>])

ReadVectoredAtCall ==
  /\ last.st = "called" /\ last.op = "read_vectored_at"
  /\ \E o \in ReadAt_read_vectored_at(last.before, last.off) : Returned(o)

WriteVectoredAtCall ==
  /\ last.st = "called" /\ last.op = "write_vectored_at"
  /\ \E o \in WriteAt_write_vectored_at(last.before, last.off) : Returned(o)

InitPositional ==
  /\ kind \in {"Slice", "Empty", "Sink", "SyncFile"}
  /\ strategy \in (IF kind = "SyncFile" THEN {"native", "fallback"} ELSE {"native"})
  /\ content \in (IF kind \in {"Sink", "Empty"} THEN {<<>>} ELSE Contents)
  /\ cursor = 0
  /\ lock = 0
  /\ alive = {1}
  /\ offset = [i \in Clones |-> Adapter_new]
  /\ pc = [i \in Clones |-> "idle"]
  /\ res = [i \in Clones |-> <<>>]
  /\ \E off \in U64 :
       \/ \E buf \in Bufs, op \in {"read_at", "read_exact_at"} :
            kind = "Slice" /\ last = Call(op, off, <<buf>>)
       \/ \E bufs \in IoVecs(VecBufs) :
            kind # "Sink" /\ last = Call("read_vectored_at", off, bufs)
       \/ \E bufs \in IoVecs(VecBufs) :
            kind \in {"Sink", "SyncFile"} /\ last = Call("write_vectored_at", off, bufs)
  /\ arc = Arc_new
  /\ access = "read_write"

NextPositional ==
  \/ ReadAtCall
  \/ ReadExactAtCall
  \/ ReadVectoredAtCall
  \/ WriteVectoredAtCall

SpecPositional == InitPositional /\ [][NextPositional]_vars

\* ------------- the trait's default read_exact_at / write_all_at (SpecLoop)
\* The loops run over a primitive (read_at / write_at of some implementor)
\* about which nothing is assumed but the contract: given a non-empty buffer
\* it returns a count up to the buffer's length, Err(Interrupted) or another
\* error. pc[1] holds the loop's variables: `rem` is buf, `off` is offset;
\* `asked` and `at` are the arguments of the latest call of the primitive and
\* `lastres` is what it returned.
PrimResults(buf) ==
  {Ok(n) : n \in 0..Len(buf)} \cup {Err(e) : e \in PlatformErrors}

Drop_front(buf, n) == SubSeq(buf, n + 1, Len(buf))

\* one turn of `while !buf.is_empty() { match self.read_at(buf, offset) {..} }`
\* and what follows the loop, r being the primitive's result
default_read_exact_at_turn(rem, off, r) ==
  IF rem = <<>> THEN {[st |-> "returned", rem |-> rem, off |-> off, ret |-> Ok(0)]}
  ELSE IF r = Ok(0)
  THEN {[st |-> "returned", rem |-> rem, off |-> off, ret |-> fill_buffer_error]}
  ELSE IF r.ok
  THEN {[st |-> IF a.panic THEN "panicked" ELSE "loop", rem |-> Drop_front(rem, r.val),
         off |-> a.offset, ret |-> NoRes] : a \in AddAssign(off, r.val)}
  ELSE IF r = Err("Interrupted")
  THEN {[st |-> "loop", rem |-> rem, off |-> off, ret |-> NoRes]}
  ELSE {[st |-> "returned", rem |-> rem, off |-> off, ret |-> r]}

\* one turn of `while !buf.is_empty() { match self.write_at(buf, offset) {..} }`
default_write_all_at_turn(rem, off, r) ==
  IF rem = <<>> THEN {[st |-> "returned", rem |-> rem, off |-> off, ret |-> Ok(0)]}
  ELSE IF r = Ok(0)
  THEN {[st |-> "returned", rem |-> rem, off |-> off, ret |-> write_buffer_error]}
  ELSE IF r.ok
  THEN {[st |-> IF a.panic THEN "panicked" ELSE "loop", rem |-> Drop_front(rem, r.val),
         off |-> a.offset, ret |-> NoRes] : a \in AddAssign(off, r.val)}
  ELSE IF r = Err("Interrupted")
  THEN {[st |-> "loop", rem |-> rem, off |-> off, ret |-> NoRes]}
  ELSE {[st |-> "returned", rem |-> rem, off |-> off, ret |-> r]}

\* the default read_exact_at (lib.rs 102-119) run to its end on a byte slice B,
\* whose read_at is <[u8]>::read_at: buf is the caller's buffer as it stands,
\* done the number of bytes of it already filled
RECURSIVE default_read_exact_at_slice(_, _, _, _)
default_read_exact_at_slice(B, buf, done, off) ==
  LET rem == Drop_front(buf, done)
      r == slice_read_at(B, Len(rem), off)
      got == Take(buf, done) \o copy_from_slice(rem, r.data)
  IN UNION {IF t.st = "loop"
            THEN default_read_exact_at_slice(B, got, done + r.res.val, t.off)
            ELSE {[res |-> t.ret, after |-> got]} :
            t \in default_read_exact_at_turn(rem, off, r.res)}

\* made counts the calls of the primitive that transferred something; moved
\* lists, in the order of transfer, the positions of the source (or sink) the
\* bytes belong to, -1 for a position beyond the largest offset
Looping(op, buf, off) ==
  [st |-> "loop", op |-> op, buf0 |-> buf, off0 |-> off, rem |-> buf, off |-> off,
   called |-> FALSE, asked |-> <<>>, at |-> 0, lastres |-> NoRes, ret |-> NoRes,
   made |-> 0, moved |-> <<>>]

Positions(at, n) == [i \in 1..n |-> IF at + i - 1 <= MaxU64 THEN at + i - 1 ELSE -1]

Turn(t, r) ==
  /\ pc' = [pc EXCEPT ![1] =
              IF pc[1].rem = <<>>
              THEN [@ EXCEPT !.st = t.st, !.ret = t.ret]
              ELSE [@ EXCEPT !.st = t.st, !.ret = t.ret, !.rem = t.rem, !.off = t.off,
                             !.called = TRUE, !.asked = pc[1].rem, !.at = pc[1].off,
                             !.lastres = r,
                             !.made = IF r.ok /\ r.val > 0 THEN @ + 1 ELSE @,
                             !.moved = IF r.ok THEN @ \o Positions(pc[1].off, r.val) ELSE @]]
  /\ UNCHANGED <<buildVars, arc, content, cursor, lock, alive, offset, res, last>>

ReadExactAtTurn ==
  /\ pc[1].st = "loop" /\ pc[1].op = "read_exact_at"
  /\ \E r \in PrimResults(pc[1].rem) :
       \E t \in default_read_exact_at_turn(pc[1].rem, pc[1].off, r) : Turn(t, r)

WriteAllAtTurn ==
  /\ pc[1].st = "loop" /\ pc[1].op = "write_all_at"
  /\ \E r \in PrimResults(pc[1].rem) :
       \E t \in default_write_all_at_turn(pc[1].rem, pc[1].off, r) : Turn(t, r)

InitLoop ==
  /\ kind = "Prim"
  /\ strategy = "native"
  /\ content = <<>>
  /\ cursor = 0
  /\ lock = 0
  /\ alive = {1}
  /\ offset = [i \in Clones |-> Adapter_new]
  /\ \E off \in U64 :
       \/ \E buf \in VecBufs :
            pc = [i \in Clones |-> IF i = 1 THEN Looping("read_exact_at", buf, off)
                                   ELSE Looping("none", <<>>, 0)]
       \/ \E buf \in Bufs :
            pc = [i \in Clones |-> IF i = 1 THEN Looping("write_all_at", buf, off)
                                   ELSE Looping("none", <<>>, 0)]
  /\ res = [i \in Clones |-> <<>>]
  /\ last = NoOp
  /\ arc = Arc_new
  /\ access = "read_write"

NextLoop ==
  \/ ReadExactAtTurn
  \/ WriteAllAtTurn

SpecLoop == InitLoop /\ [][NextLoop]_vars

\* the primitive does not answer Interrupted forever
SpecLoopFair == SpecLoop /\ WF_vars(NextLoop)

\* ------------- threads calling RandomAccessFile handles of the fallback build (SpecFallback)
\* FileRepr is Mutex<File>. Two threads call handles of one OS file: handle 1
\* is the RandomAccessFile made from the File, handle 2 is made by try_clone
\* and has a Mutex of its own around a File that drives the same OS cursor.
\* A call takes the handle's Mutex, runs its File calls one step at a time and
\* drops the guard when it returns. A thread that holds a guard may panic.
\* Here lock[h] is the Mutex of handle h, alive the handles made so far,
\* pc[t] the call thread t is in and the handle it uses, offset[t] the offset
\* of thread t's SyncFile adapter. What a call returns is not kept.
Handles == {1, 2}

Mutex(owner, poisoned) == [owner |-> owner, poisoned |-> poisoned]

SingleOps == {"read_at", "write_at", "read_vectored_at", "write_vectored_at"}
LoopOps == {"read_exact_at", "write_all_at"}
PosOps == SingleOps \cup LoopOps
ReadOps == {"read_at", "read_vectored_at", "read_exact_at"}
WithFileOps ==
  {"sync_all", "sync_data", "set_len", "metadata", "try_clone", "set_permissions", "flush", "seek_end"}

\* the offsets the threads ask for; every buffer has MaxBuf bytes, so that a
\* transfer can be short and an exact one can take several turns
Offs == {0, 1}

\* File::set_len: truncates, or extends with zeros
File_set_len(c, n) == [i \in 1..n |-> IF i <= Len(c) THEN c[i] ELSE 0]

\* (variant) LockResult::unwrap: a poisoned Mutex makes the caller panic
unwrap(poisoned) == IF poisoned THEN "panic" ELSE "guard"

\* LockResult::unwrap_or_else(PoisonError::into_inner): the guard (or the File),
\* whether or not a holder panicked
unwrap_or_else_into_inner(poisoned) == "guard"

\* (variant) the guard is a temporary of the seek statement
guard_dropped_after_seek(l, h) == [l EXCEPT ![h].owner = 0]

\* `let file = &mut *self.0.lock()...; file.seek(..)?;`: the guard lives on
guard_after_seek(l, h) == l

\* (variant) the lock is taken again for every underlying transfer
guard_dropped_between_transfers(l, h) == [l EXCEPT ![h].owner = 0]

\* file.read_exact(buf) / file.write_all(buf) run under the one guard
guard_between_transfers(l, h) == l

InCall(st, h, op, off, len, buf, k, data) ==
  [st |-> st, h |-> h, op |-> op, off |-> off, len |-> len, buf |-> buf, k |-> k, data |-> data]

Idle(h) == InCall("idle", h, "none", 0, 0, <<>>, 0, <<>>)

Ended(st, h) == InCall(st, h, "none", 0, 0, <<>>, 0, <<>>)

InCS(p) == p.st \in {"locked", "positioned"}

\* self.0.lock().unwrap_or_else(PoisonError::into_inner) at the start of call c
Acquire(t, c) ==
  /\ pc[t].st = "idle"
  /\ lock_acquirable(lock[pc[t].h].owner)
  /\ IF unwrap_or_else_into_inner(lock[pc[t].h].poisoned) = "guard"
     THEN /\ lock' = [lock EXCEPT ![pc[t].h].owner = t]
          /\ pc' = [pc EXCEPT ![t] = c]
     ELSE /\ lock' = lock
          /\ pc' = [pc EXCEPT ![t] = Ended("panicked", pc[t].h)]
  /\ UNCHANGED <<buildVars, arc, content, cursor, alive, offset, res, last>>

\* the call returns ret: the guard is dropped
Return(t, ret) ==
  /\ lock' = [lock EXCEPT ![pc[t].h].owner = 0]
  /\ pc' = [pc EXCEPT ![t] = Idle(pc[t].h)]

ReadAtLock(t) ==
  \E off \in Offs :
    Acquire(t, InCall("locked", pc[t].h, "read_at", off, MaxBuf, <<>>, 0, <<>>))

WriteAtLock(t) ==
  \E off \in Offs :
    Acquire(t, InCall("locked", pc[t].h, "write_at", off, MaxBuf, WriteBuf(t, MaxBuf), 0, <<>>))

ReadExactAtLock(t) ==
  \E off \in Offs :
    Acquire(t, InCall("locked", pc[t].h, "read_exact_at", off, MaxBuf, <<>>, 0, <<>>))

WriteAllAtLock(t) ==
  \E off \in Offs :
    Acquire(t, InCall("locked", pc[t].h, "write_all_at", off, MaxBuf, WriteBuf(t, MaxBuf), 0, <<>>))

\* the buffers of a vectored call are filled (drained) in order by one transfer
ReadVectoredAtLock(t) ==
  \E off \in Offs : \E lens \in {<<1, MaxBuf - 1>>, <<0, MaxBuf>>} :
    Acquire(t, InCall("locked", pc[t].h, "read_vectored_at", off, Sum(lens), <<>>, 0, <<>>))

WriteVectoredAtLock(t) ==
  \E off \in Offs : \E lens \in {<<1, MaxBuf - 1>>, <<0, MaxBuf>>} :
    Acquire(t, InCall("locked", pc[t].h, "write_vectored_at", off, Sum(lens),
                      WriteBuf(t, Sum(lens)), 0, <<>>))

\* file.seek(io::SeekFrom::Start(offset))?
Reposition(t) ==
  /\ pc[t].st = "locked"
  /\ pc[t].op \in PosOps
  /\ \E s \in File_seek(content, cursor, Start(pc[t].off)) :
       /\ cursor' = s.cursor
       /\ IF s.res.ok
          THEN /\ pc' = [pc EXCEPT ![t].st = "positioned"]
               /\ lock' = guard_after_seek(lock, pc[t].h)
          ELSE Return(t, s.res)
  /\ UNCHANGED <<buildVars, arc, content, alive, offset, res, last>>

\* file.read(buf), file.write(buf), file.read_vectored(bufs), file.write_vectored(bufs):
\* one transfer at the OS cursor, which it advances
Transfer(t) ==
  /\ pc[t].st = "positioned"
  /\ pc[t].op \in SingleOps
  /\ \E o \in (IF pc[t].op \in ReadOps
               THEN {[res |-> r.res, data |-> r.data, content |-> content] :
                       r \in File_pread(content, pc[t].len, cursor)}
               ELSE {[res |-> w.res, data |-> <<>>, content |-> w.content] :
                       w \in File_pwrite(content, pc[t].buf, cursor)}) :
       /\ content' = o.content
       /\ cursor' = (IF o.res.ok THEN cursor + o.res.val ELSE cursor)
       /\ Return(t, o.res)
  /\ UNCHANGED <<buildVars, arc, alive, offset, res, last>>

\* one turn of file.read_exact(buf) / file.write_all(buf): the loop ends when the
\* buffer is done, at a transfer of 0 bytes and at an error other than Interrupted
ExactTransfer(t) ==
  /\ pc[t].st = "positioned"
  /\ pc[t].op \in LoopOps
  /\ LET p == pc[t]
         rem == p.len - p.k
     IN IF rem = 0
        THEN /\ Return(t, Ok(0))
             /\ UNCHANGED <<content, cursor>>
        ELSE \E o \in (IF p.op \in ReadOps
                       THEN {[res |-> r.res, data |-> r.data, content |-> content] :
                               r \in File_pread(content, rem, cursor)}
                       ELSE {[res |-> w.res, data |-> <<>>, content |-> w.content] :
                               w \in File_pwrite(content, Drop_front(p.buf, p.k), cursor)}) :
               /\ content' = o.content
               /\ cursor' = (IF o.res.ok THEN cursor + o.res.val ELSE cursor)
               /\ IF o.res = Ok(0)
                  THEN Return(t, IF p.op \in ReadOps THEN fill_buffer_error
                                 ELSE write_buffer_error)
                  ELSE IF o.res.ok /\ o.res.val = rem
                  THEN Return(t, Ok(0))
                  ELSE IF o.res.ok
                  THEN /\ pc' = [pc EXCEPT ![t].k = @ + o.res.val, ![t].data = @ \o o.data]
                       /\ lock' = guard_between_transfers(lock, p.h)
                  ELSE IF o.res = Err("Interrupted")
                  THEN UNCHANGED <<pc, lock>>
                  ELSE Return(t, o.res)
  /\ UNCHANGED <<buildVars, arc, alive, offset, res, last>>

\* with_file(f): the Mutex is taken for the closure
WithFileLock(t, op, arg) ==
  Acquire(t, InCall("locked", pc[t].h, op, arg, 0, <<>>, 0, <<>>))

\* the closure's File call returns r and with_file drops the guard
WithFile(t, op, r) ==
  /\ pc[t].st = "locked"
  /\ pc[t].op = op
  /\ Return(t, r)

PlatformResults == {Ok(0), Err("Other")}

SyncAll(t) ==
  \/ WithFileLock(t, "sync_all", 0)
  \/ /\ \E r \in PlatformResults : WithFile(t, "sync_all", r)
     /\ UNCHANGED <<buildVars, arc, content, cursor, alive, offset, res, last>>

SyncData(t) ==
  \/ WithFileLock(t, "sync_data", 0)
  \/ /\ \E r \in PlatformResults : WithFile(t, "sync_data", r)
     /\ UNCHANGED <<buildVars, arc, content, cursor, alive, offset, res, last>>

SetLen(t) ==
  \/ \E size \in 0..MaxFileLen : WithFileLock(t, "set_len", size)
  \/ /\ \E r \in PlatformResults :
          /\ WithFile(t, "set_len", r)
          /\ content' = (IF r.ok THEN File_set_len(content, pc[t].off) ELSE content)
     /\ UNCHANGED <<buildVars, arc, cursor, alive, offset, res, last>>

Metadata(t) ==
  \/ WithFileLock(t, "metadata", 0)
  \/ /\ \E r \in PlatformResults : WithFile(t, "metadata", r)
     /\ UNCHANGED <<buildVars, arc, content, cursor, alive, offset, res, last>>

SetPermissions(t) ==
  \/ WithFileLock(t, "set_permissions", 0)
  \/ /\ \E r \in PlatformResults : WithFile(t, "set_permissions", r)
     /\ UNCHANGED <<buildVars, arc, content, cursor, alive, offset, res, last>>

Flush(t) ==
  \/ WithFileLock(t, "flush", 0)
  \/ /\ \E r \in PlatformResults : WithFile(t, "flush", r)
     /\ UNCHANGED <<buildVars, arc, content, cursor, alive, offset, res, last>>

\* try_clone: with_file(|f| f.try_clone())?, then RandomAccessFile::from(file)
\* puts the new File, which drives the same OS cursor, behind a new Mutex.
\* The thread goes on with the new handle, or drops it at once.
TryClone(t) ==
  \/ WithFileLock(t, "try_clone", 0)
  \/ /\ pc[t].st = "locked"
     /\ pc[t].op = "try_clone"
     /\ \E r \in PlatformResults :
          /\ \/ /\ r.ok /\ 2 \notin alive
                /\ alive' = alive \cup {2}
                /\ lock' = [lock EXCEPT ![pc[t].h].owner = 0, ![2] = Mutex(0, FALSE)]
                /\ pc' = [pc EXCEPT ![t] = Idle(2)]
             \/ /\ alive' = alive
                /\ lock' = [lock EXCEPT ![pc[t].h].owner = 0]
                /\ pc' = [pc EXCEPT ![t] = Idle(pc[t].h)]
     /\ UNCHANGED <<buildVars, arc, content, cursor, offset, res, last>>

\* SyncFile::seek(End(0)): with_file(|mut f| f.seek(pos))?, then the adapter
\* seeks to Start(the offset the File returned). Thread 1 is the one that seeks.
SeekEnd(t) ==
  \/ t = 1 /\ WithFileLock(t, "seek_end", 0)
  \/ /\ pc[t].st = "locked"
     /\ pc[t].op = "seek_end"
     /\ \E o \in SyncFile_seek(offset[t], End(pc[t].off)) :
          /\ cursor' = o.cursor
          /\ offset' = [offset EXCEPT ![t] = o.offset]
          /\ Return(t, o.ret)
     /\ UNCHANGED <<buildVars, arc, content, alive, res, last>>

\* a thread fails while it holds the guard: unwinding drops the guard, which
\* marks the Mutex poisoned and unlocks it
Panic(t) ==
  /\ InCS(pc[t])
  /\ lock' = [lock EXCEPT ![pc[t].h] = Mutex(0, TRUE)]
  /\ pc' = [pc EXCEPT ![t] = Ended("panicked", pc[t].h)]
  /\ UNCHANGED <<buildVars, arc, content, cursor, alive, offset, res, last>>

\* into_inner(self): self.0.into_inner().unwrap_or_else(PoisonError::into_inner);
\* the caller owns the handle, no other thread has it. The File that comes out
\* still drives the OS cursor.
IntoInner(t) ==
  /\ pc[t].st = "idle"
  /\ \A u \in Clones \ {t} : pc[u].h = pc[t].h => pc[u].st \in {"panicked", "done"}
  /\ IF unwrap_or_else_into_inner(lock[pc[t].h].poisoned) = "guard"
     THEN pc' = [pc EXCEPT ![t] = Ended("done", pc[t].h)]
     ELSE pc' = [pc EXCEPT ![t] = Ended("panicked", pc[t].h)]
  /\ UNCHANGED <<buildVars, arc, content, cursor, lock, alive, offset, res, last>>

InitFallback ==
  /\ kind = "SyncFile"
  /\ strategy = "fallback"
  /\ content \in Contents
  /\ cursor = 0
  /\ lock = [h \in Handles |-> Mutex(0, FALSE)]
  /\ alive = {1}
  /\ offset = [i \in Clones |-> SyncFile_from]
  /\ pc = [i \in Clones |-> Idle(1)]
  /\ res = [i \in Clones |-> <<>>]
  /\ last = NoOp
  /\ arc = Arc_new
  /\ access = "read_write"

NextFallback ==
  \E t \in Clones :
    \/ ReadAtLock(t)
    \/ WriteAtLock(t)
    \/ ReadExactAtLock(t)
    \/ WriteAllAtLock(t)
    \/ ReadVectoredAtLock(t)
    \/ WriteVectoredAtLock(t)
    \/ Reposition(t)
    \/ Transfer(t)
    \/ ExactTransfer(t)
    \/ SyncAll(t)
    \/ SyncData(t)
    \/ SetLen(t)
    \/ Metadata(t)
    \/ SetPermissions(t)
    \/ Flush(t)
    \/ TryClone(t)
    \/ SeekEnd(t)
    \/ Panic(t)
    \/ IntoInner(t)

SpecFallback == InitFallback /\ [][NextFallback]_vars

\* ------------------------ one call on an adapter at any offset (SpecCall)
\* <Adapter<T> as ReadAt> and <Adapter<T> as WriteAt>, which SyncFile's own
\* forms go to: each method is `self.inner.<method>(.., offset)`. The call is
\* made at the offset `at` the caller passes; the adapter's own offset off
\* takes no part in it.
\* (variant) the forwarded call moves the adapter as a sequential call does
Forwarded_advancing(at, o, off) == Folded(at, o, off, o.res.val)

Forwarded(at, o, off) == Done(at, o, off, o.res)

\* <RandomAccessFile as WriteAt>::flush is with_file(|mut f| f.flush());
\* WriteAt's default and io::Sink's flush are Ok(())
inner_flush ==
  {Untouched(r, <<>>) : r \in (IF kind = "SyncFile" THEN PlatformResults ELSE {Ok(0)})}

Adapter_read_at(off, len, at) ==
  UNION {Forwarded(at, o, off) : o \in inner_read_at(len, at)}

Adapter_read_exact_at(off, len, at) ==
  UNION {Forwarded(at, o, off) : o \in inner_read_exact_at(len, at)}

Adapter_read_vectored_at(off, lens, at) ==
  UNION {Forwarded(at, o, off) : o \in inner_read_vectored_at(lens, at)}

Adapter_write_at(off, buf, at) ==
  UNION {Forwarded(at, o, off) : o \in inner_write_at(buf, at)}

Adapter_write_all_at(off, buf, at) ==
  UNION {Forwarded(at, o, off) : o \in inner_write_all_at(buf, at)}

Adapter_write_vectored_at(off, bufs, at) ==
  UNION {Forwarded(at, o, off) : o \in inner_write_vectored_at(bufs, at)}

Adapter_flush(off) ==
  UNION {Forwarded(-1, o, off) : o \in inner_flush}

PositionalOps ==
  {"read_at", "read_exact_at", "read_vectored_at",
   "write_at", "write_all_at", "write_vectored_at", "flush"}

\* the call about to be made: arg is the buffer's length, the buffer, the
\* buffers, or the SeekFrom
Asked(op, at, arg) ==
  [st |-> "called", op |-> op, at |-> at, arg |-> arg, pre |-> offset[1],
   content0 |-> content, ret |-> NoRes, data |-> <<>>, panic |-> FALSE]

Answered(o) ==
  /\ last' = [last EXCEPT !.st = "returned", !.ret = o.ret, !.data = o.data, !.panic = o.panic]
  /\ offset' = [offset EXCEPT ![1] = o.offset]
  /\ content' = o.content
  /\ cursor' = o.cursor
  /\ UNCHANGED <<buildVars, arc, lock, alive, pc, res>>

Asking(op) == last.st = "called" /\ last.op = op

ReadAt == Asking("read_at") /\ \E o \in Adapter_read_at(offset[1], last.arg, last.at) : Answered(o)

ReadExactAt ==
  Asking("read_exact_at") /\ \E o \in Adapter_read_exact_at(offset[1], last.arg, last.at) : Answered(o)

ReadVectoredAt ==
  Asking("read_vectored_at") /\ \E o \in Adapter_read_vectored_at(offset[1], last.arg, last.at) : Answered(o)

WriteAt == Asking("write_at") /\ \E o \in Adapter_write_at(offset[1], last.arg, last.at) : Answered(o)

WriteAllAt ==
  Asking("write_all_at") /\ \E o \in Adapter_write_all_at(offset[1], last.arg, last.at) : Answered(o)

WriteVectoredAt ==
  Asking("write_vectored_at") /\ \E o \in Adapter_write_vectored_at(offset[1], last.arg, last.at) : Answered(o)

FlushAt == Asking("flush") /\ \E o \in Adapter_flush(offset[1]) : Answered(o)

ReadSeq == Asking("read") /\ \E o \in Adapter_read(offset[1], last.arg) : Answered(o)

WriteSeq == Asking("write") /\ \E o \in Adapter_write(offset[1], last.arg) : Answered(o)

SeekSeq ==
  Asking("seek") /\ \E o \in (IF kind = "SyncFile" THEN SyncFile_seek(offset[1], last.arg)
                              ELSE {Adapter_seek(offset[1], last.arg)}) : Answered(o)

RewindSeq == Asking("rewind") /\ Answered(Adapter_rewind(offset[1]))

InitCall ==
  /\ kind \in {"SyncFile", "Slice", "Sink"}
  /\ strategy \in (IF kind = "SyncFile" THEN {"native", "fallback"} ELSE {"native"})
  /\ access \in (IF kind = "SyncFile" THEN Access ELSE {"read_write"})
  /\ content \in (IF kind = "Sink" THEN {<<>>} ELSE Contents)
  /\ cursor \in (IF strategy = "fallback" THEN {0, MaxFileLen} ELSE {0})
  /\ lock = 0
  /\ alive = {1}
  /\ offset \in {[i \in Clones |-> IF i = 1 THEN c ELSE Adapter_new] : c \in U64}
  /\ pc = [i \in Clones |-> "idle"]
  /\ res = [i \in Clones |-> <<>>]
  /\ \/ \E at \in U64 :
          \/ Readable /\ \E len \in BufLens, op \in {"read_at", "read_exact_at"} :
                           last = Asked(op, at, len)
          \/ Readable /\ \E lens \in IoVecs(BufLens) : last = Asked("read_vectored_at", at, lens)
          \/ Writable /\ \E buf \in Bufs, op \in {"write_at", "write_all_at"} :
                           last = Asked(op, at, buf)
          \/ Writable /\ \E bufs \in IoVecs(VecBufs) : last = Asked("write_vectored_at", at, bufs)
     \/ Writable /\ last = Asked("flush", -1, 0)
     \/ Readable /\ \E len \in BufLens : last = Asked("read", -1, len)
     \/ Writable /\ \E buf \in Bufs : last = Asked("write", -1, buf)
     \/ \E pos \in SeekFrom : last = Asked("seek", -1, pos)
     \/ last = Asked("rewind", -1, 0)
  /\ arc = Arc_new

NextCall ==
  \/ ReadAt
  \/ ReadExactAt
  \/ ReadVectoredAt
  \/ WriteAt
  \/ WriteAllAt
  \/ WriteVectoredAt
  \/ FlushAt
  \/ ReadSeq
  \/ WriteSeq
  \/ SeekSeq
  \/ RewindSeq

SpecCall == InitCall /\ [][NextCall]_vars

\* ------------- write through one clone, read back through any (SpecRoundTrip)
\* Clone 1 writes the bytes X at offset o, positionally or after seeking to o;
\* then clone 1 or clone 2 reads the range back, positionally or after
\* seeking to o.
Planned(X, o) ==
  [st |-> "start", X |-> X, o |-> o, wrote |-> NoRes, who |-> 0, op |-> "none",
   ret |-> NoRes, data |-> <<>>]

Settled(i, o) ==
  /\ offset' = [offset EXCEPT ![i] = o.offset]
  /\ content' = o.content
  /\ cursor' = o.cursor
  /\ UNCHANGED <<buildVars, arc, lock, alive, pc, res>>

\* the writer: write_all_at(X, o), or seek(Start(o)) and write_all(X)
WriterSeek ==
  /\ last.st = "start" /\ offset[1] # last.o
  /\ \E o \in SyncFile_seek(offset[1], Start(last.o)) : Settled(1, o)
  /\ UNCHANGED last

Written(o) ==
  /\ last' = [last EXCEPT !.st = IF o.ret.ok THEN "written" ELSE "failed", !.wrote = o.ret]
  /\ Settled(1, o)

WriterWriteAllAt ==
  /\ last.st = "start"
  /\ \E o \in Adapter_write_all_at(offset[1], last.X, last.o) : Written(o)

WriterWriteAll ==
  /\ last.st = "start" /\ offset[1] = last.o
  /\ \E o \in SyncFile_write_all(offset[1], last.X) : Written(o)

\* the reader: read_exact_at / read_at at o, or seek(Start(o)) and read_exact / read
ReaderSeek(i) ==
  /\ last.st = "written" /\ offset[i] # last.o
  /\ \E o \in SyncFile_seek(offset[i], Start(last.o)) : Settled(i, o)
  /\ UNCHANGED last

ReadBack(i, op, o) ==
  /\ last' = [last EXCEPT !.st = "read", !.who = i, !.op = op, !.ret = o.ret, !.data = o.data]
  /\ Settled(i, o)

ReaderReadExactAt(i) ==
  /\ last.st = "written"
  /\ \E o \in Adapter_read_exact_at(offset[i], Len(last.X), last.o) : ReadBack(i, "read_exact_at", o)

ReaderReadAt(i) ==
  /\ last.st = "written"
  /\ \E o \in Adapter_read_at(offset[i], Len(last.X), last.o) : ReadBack(i, "read_at", o)

ReaderReadExact(i) ==
  /\ last.st = "written" /\ offset[i] = last.o
  /\ \E o \in SyncFile_read_exact(offset[i], Len(last.X)) : ReadBack(i, "read_exact", o)

ReaderRead(i) ==
  /\ last.st = "written" /\ offset[i] = last.o
  /\ \E o \in SyncFile_read(offset[i], Len(last.X)) : ReadBack(i, "read", o)

\* SyncFile::create(path), or SyncFile::from(file) of a File open for reading
\* and writing; clone 2 is a clone of the new SyncFile
InitRoundTrip ==
  /\ kind = "SyncFile"
  /\ strategy \in {"native", "fallback"}
  /\ \E f \in {File_create(c) : c \in Contents}
              \cup {[access |-> "read_write", content |-> c] : c \in Contents} :
       access = f.access /\ content = f.content
  /\ cursor = 0
  /\ lock = 0
  /\ alive = Clones
  /\ offset = [i \in Clones |-> SyncFile_clone(SyncFile_from)]
  /\ pc = [i \in Clones |-> "idle"]
  /\ res = [i \in Clones |-> <<>>]
  /\ \E X \in Bufs, o \in U64 : last = Planned(X, o)
  /\ arc = Arc_clone(Arc_new)

NextRoundTrip ==
  \/ WriterSeek
  \/ WriterWriteAllAt
  \/ WriterWriteAll
  \/ \E i \in Clones :
       \/ ReaderSeek(i)
       \/ ReaderReadExactAt(i)
       \/ ReaderReadAt(i)
       \/ ReaderReadExact(i)
       \/ ReaderRead(i)

SpecRoundTrip == InitRoundTrip /\ [][NextRoundTrip]_vars

\* ------- seek(End(d)) on one clone during a call on the other (SpecSeekEnd)
\* Clone 1 runs SyncFile::seek(End(d)) while clone 2 runs one read, read_at,
\* write or write_at on another thread. The steps are those of the code: on
\* the fallback build the Mutex is taken, the cursor is moved and the transfer
\* is made at the cursor; on the native build the transfer is one positional
\* call; the adapter's own update follows the return of the call.
Seeking(d) == [st |-> "seek", d |-> d, r |-> NoRes, L |-> 0, cur0 |-> 0]

\* target is the offset the transfer is to be made at: the clone's own offset
\* for read and write, the caller's for read_at and write_at
Calling(op, target, arg, pre) ==
  [st |-> "call", op |-> op, target |-> target, arg |-> arg, pre |-> pre,
   r |-> NoRes, data |-> <<>>, where |-> 0, c0 |-> <<>>, c1 |-> <<>>]

ReadForms == {"read", "read_at"}
WriteForms == {"write", "write_at"}

\* the File calls of one transfer of clone i's call at offset off
FileTransfer(i, off) ==
  IF pc[i].op \in ReadForms
  THEN {[res |-> o.res, data |-> o.data, content |-> content] :
          o \in File_pread(content, Len(pc[i].arg), off)}
  ELSE {[res |-> o.res, data |-> <<>>, content |-> o.content] :
          o \in File_pwrite(content, pc[i].arg, off)}

Transferred(i, o, off) ==
  /\ content' = o.content
  /\ pc' = [pc EXCEPT ![i] = [@ EXCEPT !.st = "returned", !.r = o.res, !.data = o.data,
                                       !.where = off, !.c0 = content, !.c1 = o.content]]

\* (variant) with_file never takes the Mutex
with_file_unlocked(st) == FALSE

\* with_file calls f(&self.0) on the native build and
\* f(&self.0.lock().unwrap_or_else(PoisonError::into_inner)) on the fallback
with_file_locks(st) == st = "fallback"

\* native: read_at / write_at is one positional call at the offset; pread and
\* pwrite leave the OS cursor alone, seek_read and seek_write leave it after
\* the bytes transferred
NativeTransfer(i) ==
  /\ pc[i].st = "call" /\ strategy = "native"
  /\ \E o \in FileTransfer(i, pc[i].target) :
       /\ Transferred(i, o, pc[i].target)
       /\ cursor' \in {cursor} \cup (IF o.res.ok THEN {pc[i].target + o.res.val} ELSE {})
  /\ UNCHANGED <<buildVars, arc, lock, alive, offset, res, last>>

\* fallback: self.0.lock() ...
TakeLock(i) ==
  /\ \/ pc[i].st = "call" /\ strategy = "fallback"
     \/ pc[i].st = "seek" /\ with_file_locks(strategy)
  /\ lock_acquirable(lock)
  /\ lock' = i
  /\ pc' = [pc EXCEPT ![i] = [@ EXCEPT !.st = IF @ = "call" THEN "locked" ELSE "seek_locked"]]
  /\ UNCHANGED <<buildVars, arc, content, cursor, alive, offset, res, last>>

\* ... file.seek(SeekFrom::Start(offset))? ...
SeekStart(i) ==
  /\ pc[i].st = "locked"
  /\ \E s \in File_seek(content, cursor, Start(pc[i].target)) :
       /\ cursor' = s.cursor
       /\ IF s.res.ok
          THEN pc' = [pc EXCEPT ![i] = [@ EXCEPT !.st = "positioned"]] /\ lock' = lock
          ELSE pc' = [pc EXCEPT ![i] = [@ EXCEPT !.st = "returned", !.r = s.res]] /\ lock' = 0
  /\ UNCHANGED <<buildVars, arc, content, alive, offset, res, last>>

\* ... file.read(buf) / file.write(buf) at the cursor; the guard is dropped
TransferAtCursor(i) ==
  /\ pc[i].st = "positioned"
  /\ \E o \in FileTransfer(i, cursor) :
       /\ Transferred(i, o, cursor)
       /\ cursor' = (IF o.res.ok THEN cursor + o.res.val ELSE cursor)
  /\ lock' = 0
  /\ UNCHANGED <<buildVars, arc, alive, offset, res, last>>

\* back in the adapter: read and write add to the offset, read_at and
\* write_at have been forwarded
AfterCall(i) ==
  /\ pc[i].st = "returned"
  /\ LET o == Untouched(pc[i].r, pc[i].data)
     IN \E f \in (IF pc[i].op \in {"read", "write"}
                  THEN Folded(offset[i], o, offset[i], o.res.val)
                  ELSE Forwarded(pc[i].target, o, offset[i])) :
          /\ offset' = [offset EXCEPT ![i] = f.offset]
          /\ pc' = [pc EXCEPT ![i] = [@ EXCEPT !.st = IF f.panic THEN "panicked" ELSE "done"]]
  /\ UNCHANGED <<buildVars, arc, content, cursor, lock, alive, res, last>>

\* SyncFile::seek(End(d)): with_file(|mut f| f.seek(pos)) on the shared File
SeekEndCall(i) ==
  /\ \/ pc[i].st = "seek" /\ ~with_file_locks(strategy)
     \/ pc[i].st = "seek_locked"
  /\ \E s \in RandomAccessFile_with_file_seek(content, cursor, End(pc[i].d)) :
       /\ cursor' = s.cursor
       /\ pc' = [pc EXCEPT ![i] = [@ EXCEPT !.st = "sought", !.r = s.res,
                                            !.L = Len(content), !.cur0 = cursor]]
  /\ lock' = (IF pc[i].st = "seek_locked" THEN 0 ELSE lock)
  /\ UNCHANGED <<buildVars, arc, content, alive, offset, res, last>>

\* `?`, then self.0.seek(SeekFrom::Start(offset))
SeekEndStore(i) ==
  /\ pc[i].st = "sought"
  /\ LET o == SyncFile_seek_resolved(offset[i], [res |-> pc[i].r, cursor |-> cursor])
     IN /\ offset' = [offset EXCEPT ![i] = o.offset]
        /\ pc' = [pc EXCEPT ![i] = [@ EXCEPT !.st = IF o.ret.ok THEN "done" ELSE "failed"]]
  /\ UNCHANGED <<buildVars, arc, content, cursor, lock, alive, res, last>>

InitSeekEnd ==
  /\ kind = "SyncFile"
  /\ strategy \in {"native", "fallback"}
  /\ access = "read_write"
  /\ content \in Contents
  /\ cursor \in {0, MaxFileLen}
  /\ lock = 0
  /\ alive = Clones
  /\ \E d \in I64, target \in U64 :
       \/ \E buf \in VecBufs, op \in {"read", "write"} :
            /\ offset = [i \in Clones |-> IF i = 1 THEN MaxU64 ELSE target]
            /\ pc = [i \in Clones |-> IF i = 1 THEN Seeking(d)
                                      ELSE Calling(op, target, buf, target)]
       \/ \E buf \in VecBufs, op \in {"read_at", "write_at"} :
            /\ offset = [i \in Clones |-> IF i = 1 THEN MaxU64 ELSE MaxU64 - target]
            /\ pc = [i \in Clones |-> IF i = 1 THEN Seeking(d)
                                      ELSE Calling(op, target, buf, MaxU64 - target)]
  /\ res = [i \in Clones |-> <<>>]
  /\ last = NoOp
  /\ arc = Arc_clone(Arc_new)

NextSeekEnd ==
  \E i \in Clones :
    \/ NativeTransfer(i)
    \/ TakeLock(i)
    \/ SeekStart(i)
    \/ TransferAtCursor(i)
    \/ AfterCall(i)
    \/ SeekEndCall(i)
    \/ SeekEndStore(i)

SpecSeekEnd == InitSeekEnd /\ [][NextSeekEnd]_vars

\* ======================================================= claims, SpecAdapter
SeqOps == {"read", "write", "read_vectored", "write_vectored"}
ExactOps == {"read_exact", "write_all"}

\* C4: seek(Current(d)) at offset c succeeds, and stores and returns c + d,
\* exactly when 0 <= c + d <= MaxU64; otherwise it fails with InvalidInput and
\* the stored offset is still c. The result is the exact sum, never wrapped.
C4_SeekCurrentChecked ==
  (last.op = "seek" /\ last.pos.k = "Current") =>
    LET c == last.pre
        d == last.pos.n
    IN IF 0 <= c + d /\ c + d <= MaxU64
       THEN last.ret = Ok(c + d) /\ offset[1] = c + d
       ELSE last.ret = invalid_seek /\ offset[1] = c

\* a relative seek past the largest offset was refused from a non-zero offset
C4_Witness ==
  /\ last.op = "seek" /\ last.pos.k = "Current"
  /\ last.pre > 0 /\ last.pre + last.pos.n > MaxU64
  /\ last.ret = invalid_seek /\ offset[1] = last.pre

\* C6: on a bare Adapter seek(End(d)) fails with Unsupported for every d and
\* from every offset, and the stored offset is unchanged.
C6_SeekEndUnsupported ==
  (kind # "SyncFile" /\ last.op = "seek" /\ last.pos.k = "End") =>
    (last.ret = unsupported /\ offset[1] = last.pre)

C6_Witness ==
  /\ kind = "Slice" /\ last.op = "seek" /\ last.pos.k = "End"
  /\ last.pre > 0 /\ last.pos.n < 0 /\ last.ret = unsupported

\* C7: a sequential read, write, read_vectored or write_vectored at offset c
\* makes the positional call at exactly c; when the call succeeds with count n
\* the offset becomes c + n, when it fails the offset stays c.
C7_SequentialAdvance ==
  (last.op \in SeqOps) =>
    /\ last.at = last.pre
    /\ last.res.ok => offset[1] = last.pre + last.res.val
    /\ ~last.res.ok => offset[1] = last.pre

\* C8: read_exact and write_all at offset c with a buffer of n bytes leave the
\* offset at c + n when the exact call succeeds and at c when it fails.
C8_ExactAdvance ==
  (last.op \in ExactOps) =>
    /\ last.at = last.pre
    /\ last.res.ok => offset[1] = last.pre + last.len
    /\ ~last.res.ok => offset[1] = last.pre

\* C9: right after a successful seek, stream_position and offset() report the
\* value the seek returned (Start(n) returns n); stream_position and offset()
\* never fail and never change the offset.
C9_PositionAfterSeek ==
  [][ /\ (last'.op = "seek" /\ last'.pos.k = "Start") => last'.ret = Ok(last'.pos.n)
      /\ (last'.op \in {"stream_position", "offset"}) =>
           /\ last'.ret = Ok(offset[1])
           /\ offset'[1] = offset[1]
           /\ (last.op = "seek" /\ last.ret.ok) => last'.ret = last.ret
    ]_vars

\* stream_position has reported the largest offset, which only a seek stores
C9_Witness ==
  /\ kind = "SyncFile" /\ last.op = "stream_position"
  /\ last.ret = Ok(MaxU64) /\ offset[1] = MaxU64

\* C10: rewind always succeeds and sets the offset to 0 from any offset, and
\* rewinding again from there gives 0 again.
C10_Rewind ==
  (last.op = "rewind") =>
    /\ last.ret.ok /\ offset[1] = 0
    /\ Adapter_rewind(offset[1]).ret.ok /\ Adapter_rewind(offset[1]).offset = 0
    /\ SyncFile_rewind(offset[1]).ret.ok /\ SyncFile_rewind(offset[1]).offset = 0

C10_Witness == last.op = "rewind" /\ last.pre = MaxU64 /\ offset[1] = 0

\* C7, C8: where the claimed offset c + n does not fit u64, `self.offset += n`
\* has overflowed: the handler panicked, or it stored c + n reduced mod 2^64
C7_Overflow ==
  /\ last.op \in SeqOps
  /\ last.res.ok
  /\ last.pre + last.res.val > MaxU64
  /\ last.panic \/ offset[1] = (last.pre + last.res.val) % (MaxU64 + 1)

C8_Overflow ==
  /\ last.op \in ExactOps
  /\ last.res.ok
  /\ last.pre + last.len > MaxU64
  /\ last.panic \/ offset[1] = (last.pre + last.len) % (MaxU64 + 1)

\* C27: a successful sequential read, write, read_exact, write_all,
\* read_vectored or write_vectored that transfers k bytes at offset c leaves
\* the offset at c + k as an exact integer: the update does not abort and the
\* stored offset is never smaller than c.
C27_OffsetExact ==
  (last.op \in SeqOps \cup ExactOps /\ last.res.ok) =>
    LET k == IF last.op \in ExactOps THEN last.len ELSE last.res.val IN
    /\ ~last.panic
    /\ offset[1] >= last.pre
    /\ offset[1] - last.pre = k

\* io::Sink accepted a byte at the largest offset: the stored offset wrapped
\* to 0, or the update aborted
C27_Wrapped ==
  /\ kind = "Sink" /\ last.op = "write"
  /\ last.pre = MaxU64 /\ last.res = Ok(1)
  /\ last.panic \/ offset[1] = 0

\* C30: when the platform's end-relative seek fails during
\* SyncFile::seek(End(d)), seek returns that error and the offset keeps the
\* value it had; the offset is assigned only from a successful platform answer.
C30_FailedSeekEndKeepsOffset ==
  (kind = "SyncFile" /\ last.op = "seek" /\ last.pos.k = "End") =>
    /\ ~last.res.ok => (last.ret = last.res /\ offset[1] = last.pre)
    /\ offset[1] # last.pre => (last.res.ok /\ offset[1] = last.res.val)

\* End(d) with L + d negative was refused while the offset was not 0
C30_Witness ==
  /\ kind = "SyncFile" /\ last.op = "seek" /\ last.pos.k = "End"
  /\ Len(content) + last.pos.n < 0
  /\ ~last.ret.ok /\ last.pre = MaxU64 /\ offset[1] = MaxU64

\* =========================================================== claims, SpecCall
\* C24: read_at, read_exact_at, read_vectored_at, write_at, write_all_at,
\* write_vectored_at and flush on an Adapter or a SyncFile leave the adapter's
\* offset as it was, whether they succeed or fail; a call on one adapter
\* leaves the other adapter's offset alone.
C24_PositionalKeepsOffset ==
  /\ (last.st = "returned" /\ last.op \in PositionalOps) => offset[1] = last.pre
  /\ offset[2] = Adapter_new

\* a positional write away from the adapter's offset has succeeded
C24_Witness ==
  /\ kind = "SyncFile" /\ last.st = "returned" /\ last.op = "write_at"
  /\ last.pre = MaxU64 /\ last.at = 0 /\ last.ret = Ok(MaxBuf)
  /\ offset[1] = MaxU64 /\ content # last.content0

Other(st) == IF st = "native" THEN "fallback" ELSE "native"

\* every outcome of the call l on the RandomAccessFile of build st, from the
\* content and the offset l was made at and with the OS cursor at cur
Twin(st, l, cur) ==
  LET c == l.content0
      off == l.pre
  IN CASE l.op = "read_at" ->
            UNION {Forwarded(l.at, o, off) : o \in RandomAccessFile_read_at(st, c, cur, l.arg, l.at)}
       [] l.op = "read_exact_at" ->
            UNION {Forwarded(l.at, o, off) : o \in RandomAccessFile_read_exact_at(st, c, cur, l.arg, l.at)}
       [] l.op = "write_at" ->
            UNION {Forwarded(l.at, o, off) : o \in RandomAccessFile_write_at(st, c, cur, l.arg, l.at)}
       [] l.op = "write_all_at" ->
            UNION {Forwarded(l.at, o, off) : o \in RandomAccessFile_write_all_at(st, c, cur, l.arg, l.at)}
       [] l.op = "read" ->
            UNION {Folded(off, o, off, o.res.val) : o \in RandomAccessFile_read_at(st, c, cur, l.arg, off)}
       [] l.op = "write" ->
            UNION {Folded(off, o, off, o.res.val) : o \in RandomAccessFile_write_at(st, c, cur, l.arg, off)}
       [] l.op = "seek" ->
            IF l.arg.k = "End"
            THEN {SyncFile_seek_resolved(off, s) : s \in RandomAccessFile_with_file_seek(c, cur, l.arg)}
            ELSE {Adapter_seek(off, l.arg)}
       [] l.op = "rewind" -> {SyncFile_rewind(off)}

StrategyOps ==
  {"read_at", "read_exact_at", "write_at", "write_all_at", "read", "write", "seek", "rewind"}

\* C23: a call of read_at, write_at, read_exact_at, write_all_at, read, write,
\* seek or rewind that returned on one strategy has, from the same content and
\* offset, an outcome on the other strategy with the same result, the same
\* bytes read, the same file content and the same offset.
C23_SameOnBothStrategies ==
  (kind = "SyncFile" /\ last.st = "returned" /\ last.op \in StrategyOps) =>
    \E cur \in U64 : \E o \in Twin(Other(strategy), last, cur) :
      /\ o.ret = last.ret /\ o.panic = last.panic
      /\ o.data = last.data
      /\ o.content = content
      /\ o.offset = offset[1]

\* the fallback's seek refused an offset that does not fit i64 and
\* read_exact_at of an empty buffer failed; natively the call makes no
\* system call and can only succeed
C23_EmptyExactFails ==
  /\ kind = "SyncFile" /\ strategy = "fallback"
  /\ last.st = "returned" /\ last.op = "read_exact_at"
  /\ last.arg = 0 /\ last.at > I64Max
  /\ ~last.ret.ok
  /\ \A cur \in U64 : \A o \in Twin("native", last, cur) : o.ret = Ok(0)

\* ====================================================== claims, SpecRoundTrip
ReadBackExact == last.st = "read" /\ last.op \in {"read_exact_at", "read_exact"}

\* C21 as stated: after create and a successful write_all_at(X, o), reading
\* len(X) bytes back at o with read_exact_at is not refused, does not meet the
\* end of the file, and yields X.
C21_RoundTripAfterCreate ==
  (access = File_create(<<>>).access /\ last.st = "read" /\ last.op = "read_exact_at") =>
    /\ last.ret.ok \/ last.ret.err \in PlatformErrors
    /\ last.ret.ok => last.data = last.X

\* C21: on a file open for reading and writing, after a successful write of X
\* at o, read_exact_at / read_exact of len(X) bytes at o is not refused, does
\* not meet the end of the file, and yields X; on a file from create, which is
\* open for writing only, the read of a non-empty range is refused.
C21_RoundTrip ==
  ReadBackExact =>
    IF can_read
    THEN /\ last.ret.ok \/ last.ret.err \in PlatformErrors
         /\ last.ret.ok => (last.data = last.X /\ Slice(content, last.o, Len(last.X)) = last.X)
    ELSE last.X # <<>> => ~last.ret.ok

\* a full-length X written past the start of a file open for both, and read back
C21_Witness ==
  /\ access = "read_write" /\ last.st = "read" /\ last.op = "read_exact_at" /\ last.who = 1
  /\ last.o > 0 /\ Len(last.X) > 0 /\ last.X[1] = 1
  /\ last.ret.ok /\ last.data = last.X

\* after create the write succeeded and the read back was refused
C21_RefusedAfterCreate ==
  /\ access = "write" /\ last.st = "read" /\ last.op = "read_exact_at" /\ last.who = 1
  /\ last.wrote.ok /\ Len(last.X) = MaxBuf
  /\ last.ret = bad_descriptor

\* C22: once a write of X at o through clone 1 has completed, a read at o
\* through clone 2, positional or sequential after seeking to o, transfers
\* bytes of X from its start (all of X for the exact forms, at least one byte
\* for a non-empty X otherwise), on a file that is open for reading.
C22_ClonesSeeWrite ==
  (last.st = "read" /\ last.who = 2) =>
    LET n == IF last.op \in {"read_exact_at", "read_exact"} THEN Len(last.X) ELSE last.ret.val
    IN /\ last.ret.ok => (last.data = Take(last.X, n) /\ (last.X # <<>> => n >= 1))
       /\ can_read => (last.ret.ok \/ last.ret.err \in PlatformErrors)

\* clone 2 sought to o and read all of X with one sequential read
C22_Witness ==
  /\ last.st = "read" /\ last.who = 2 /\ last.op = "read"
  /\ last.o > 0 /\ Len(last.X) > 0 /\ last.X[1] = 1
  /\ last.ret = Ok(Len(last.X)) /\ last.data = last.X
  /\ offset[2] = last.o + Len(last.X) /\ offset[1] = 0

\* ======================================================== claims, SpecSeekEnd
\* C29: while clone 1 runs seek(End(d)), on either build and in every
\* interleaving, clone 2's offset is changed by clone 2's own read or write
\* only; the bytes of clone 2's read, read_at, write or write_at are
\* transferred at the offset clone 2 asked for; and clone 1's seek returns
\* L + d for the file length L it met, wherever the OS cursor stood, and
\* fails when L + d is negative.
C29_SeekEndInvisible ==
  LET s == pc[1]
      t == pc[2]
  IN /\ (t.st \in {"call", "locked", "positioned", "returned"}) => offset[2] = t.pre
     /\ (t.st = "done") =>
          offset[2] = t.pre + (IF t.op \in {"read", "write"} /\ t.r.ok THEN t.r.val ELSE 0)
     /\ (t.st \in {"returned", "done"} /\ t.r.ok) =>
          /\ t.where = t.target
          /\ t.op \in ReadForms => t.data = Slice(t.c0, t.target, t.r.val)
          /\ t.op \in WriteForms => t.c1 = Overwrite(t.c0, t.target, Take(t.arg, t.r.val))
     /\ (s.st \in {"sought", "done", "failed"}) =>
          /\ s.r.ok => s.r = Ok(s.L + s.d)
          /\ s.L + s.d < 0 => ~s.r.ok
     /\ (s.st = "done") => offset[1] = s.L + s.d
     /\ (s.st \in {"seek", "seek_locked", "sought", "failed"}) => offset[1] = MaxU64

\* fallback build: clone 1's seek met the cursor where clone 2's write had
\* left it; both calls are over
C29_Witness ==
  /\ strategy = "fallback"
  /\ pc[2].st = "done" /\ pc[2].op = "write" /\ pc[2].r = Ok(1) /\ pc[2].target > 0
  /\ pc[1].st = "done" /\ pc[1].d < 0
  /\ pc[1].cur0 = pc[2].target + 1
  /\ offset[1] = pc[1].L + pc[1].d /\ offset[2] = pc[2].target + 1

\* ======================================================= claims, SpecReadAll
\* C2: a clone that starts at offset 0 and reads the file one byte at a time
\* until Ok(0), while the other clone does the same on another thread, has
\* received the L bytes of the file, each once and in order, and ends with its
\* offset at L; what it has received so far is always a prefix of the file.
C2_EachCloneReadsWholeFile ==
  \A i \in Clones :
    (pc[i].d = NoSeek) =>
      /\ res[i] = Take(content, Len(res[i]))
      /\ (pc[i].st = "done") => (res[i] = content /\ offset[i] = Len(content))

C2_Witness ==
  /\ strategy = "fallback"
  /\ Len(content) = MaxFileLen
  /\ \A i \in Clones : pc[i].d = NoSeek /\ pc[i].st = "done" /\ res[i] = content

\* C5: on a file of length L, a successful SyncFile seek(End(d)) has 0 <= L + d,
\* returns L + d and leaves the clone's offset at L + d whatever the offset was
\* before; reading from there to end-of-file yields, for d <= 0, exactly the
\* last -d bytes of the file (and nothing for d > 0).
C5_SeekEndThenRead ==
  LET L == Len(content)
      d == pc[1].d
  IN (d # NoSeek) =>
       /\ (pc[1].st = "sought" /\ pc[1].r.ok) => (L + d >= 0 /\ pc[1].r = Ok(L + d))
       /\ (pc[1].st = "loop" /\ res[1] = <<>>) => (offset[1] = L + d /\ pc[1].r = Ok(L + d))
       /\ (pc[1].st = "done") =>
            /\ L + d >= 0
            /\ d <= 0 => (Len(res[1]) = 0 - d /\ res[1] = Slice(content, L + d, 0 - d))
            /\ d > 0 => res[1] = <<>>
            /\ offset[1] = Max(L, L + d)

C5_Witness ==
  /\ pc[1].d = 0 - MaxFileLen
  /\ pc[1].st = "done"
  /\ Len(res[1]) = MaxFileLen
  /\ res[1] = content
  /\ pc[2].st = "done"

\* ============================================================== claims, Spec
\* C1: whatever the interleaving of read, read_exact, write, write_all, seek
\* and rewind calls made through the clones of one SyncFile, a call on one
\* clone leaves the offset of every other clone as it was: a clone's offset
\* changes only in that clone's own calls.
C1_ClonesHaveOwnOffsets ==
  [][\A i \in alive \cap alive' : last'.who # i => offset'[i] = offset[i]]_vars

C1_Witness ==
  /\ alive = Clones
  /\ last.who = 1
  /\ last.op = "call"
  /\ offset[1] = MaxFileLen
  /\ offset[2] = 1
  /\ cursor # 0

\* C3: a SyncFile made from a File starts at offset 0; a clone made while its
\* source is at offset k starts at offset k, and making it changes no offset
\* of a clone that exists already.
C3_NewAtZeroCloneAtCurrent ==
  /\ offset[1] = 0 /\ alive = {1}
  /\ [][last'.op = "clone" =>
          /\ last'.from \in alive
          /\ last'.who \notin alive
          /\ offset'[last'.who] = offset[last'.from]
          /\ \A i \in alive : offset'[i] = offset[i]]_vars

C3_Witness ==
  /\ last.op = "clone"
  /\ last.who = 2
  /\ offset[1] = MaxU64
  /\ offset[2] = MaxU64

\* C20: the OS file behind a SyncFile is released only when the last clone is
\* dropped: the Arc has one owner per living clone, the File is open while a
\* clone lives and has been closed exactly once when none is left, and a drop
\* leaves the file and the offsets of the surviving clones as they were.
C20_ReleasedOnLastDrop ==
  /\ [](arc.strong = Cardinality(alive))
  /\ [](arc.released = (IF alive = {} THEN 1 ELSE 0))
  /\ [][(last'.op = "drop" /\ alive' # alive) =>
          /\ content' = content
          /\ \A j \in alive' : offset'[j] = offset[j]]_vars

\* clone 1 was dropped while clone 2 lived, then clone 2 was dropped: the File
\* has been closed once
C20_Witness ==
  /\ alive = {}
  /\ last.op = "drop" /\ last.who = 2
  /\ arc.released = 1

\* ==================================================== claims, SpecPositional
\* C11: read_at on a byte slice B never fails. For an offset o <= len(B) it
\* returns n = min(len(buf), len(B) - o), buf[0..n] = B[o..o+n] and buf[n..] is
\* as it was; for o > len(B), offsets that do not fit usize included, it
\* returns 0 and buf is as it was.
C11_SliceReadAt ==
  (kind = "Slice" /\ last.op = "read_at" /\ last.st = "returned") =>
    LET B == last.content0
        o == last.off
        buf == last.before[1]
        got == last.after[1]
        n == last.res.val
    IN /\ last.res.ok
       /\ content = B
       /\ Len(got) = Len(buf)
       /\ IF o <= Len(B)
          THEN /\ n = Min(Len(buf), Len(B) - o)
               /\ \A i \in 1..n : got[i] = B[o + i]
               /\ \A i \in (n + 1)..Len(buf) : got[i] = buf[i]
          ELSE n = 0 /\ got = buf

C11_Witness ==
  /\ kind = "Slice" /\ last.op = "read_at" /\ last.st = "returned"
  /\ Len(last.before[1]) = MaxBuf
  /\ last.off = Len(content) - 1
  /\ last.res = Ok(1)
  /\ last.after[1][1] # last.before[1][1]

\* C12: read_exact_at on a byte slice B fails with UnexpectedEof when
\* len(buf) > len(B) - o, and otherwise succeeds with buf = B[o..o+len(buf)].
C12_SliceReadExactAt ==
  (kind = "Slice" /\ last.op = "read_exact_at" /\ last.st = "returned") =>
    LET B == last.content0
        o == last.off
        buf == last.before[1]
    IN IF Len(buf) > Len(B) - o
       THEN last.res = fill_buffer_error
       ELSE last.res.ok /\ last.after[1] = Slice(B, o, Len(buf))

C12_Witness ==
  /\ kind = "Slice" /\ last.op = "read_exact_at" /\ last.st = "returned"
  /\ last.off = 1
  /\ Len(last.before[1]) = Len(content)
  /\ last.res = fill_buffer_error

\* C15: a vectored call is a single call on the concatenation of its buffers,
\* a short transfer being allowed. read_vectored_at returning Ok(n): n is at
\* most the length of the concatenation, its first n bytes are the source's
\* bytes at offset..offset+n, the rest is as it was, and n = 0 only if the
\* concatenation is empty or the source has nothing at offset; an error is one
\* read_at returns. write_vectored_at returning Ok(n): the first n bytes of
\* the concatenation are stored at offset, and n = 0 only if it is empty.
C15_VectoredAsSingleCall ==
  (last.st = "returned" /\ last.op \in {"read_vectored_at", "write_vectored_at"}) =>
    LET cat0 == Concat(last.before)
        cat1 == Concat(last.after)
        n == last.res.val
        o == last.off
        B == last.content0
    IN IF last.op = "read_vectored_at"
       THEN /\ content = B
            /\ last.res.ok =>
                 /\ n <= Len(cat0)
                 /\ Len(cat1) = Len(cat0)
                 /\ n > 0 => o + n <= Len(B)
                 /\ \A i \in 1..n : cat1[i] = B[o + i]
                 /\ \A i \in (n + 1)..Len(cat0) : cat1[i] = cat0[i]
                 /\ n = 0 => (cat0 = <<>> \/ o >= Len(B))
            /\ ~last.res.ok => \E r \in ReadAt_read_at(Len(cat0), o) : r.res = last.res
       ELSE /\ last.after = last.before
            /\ last.res.ok =>
                 /\ n <= Len(cat0)
                 /\ content = (IF kind = "Sink" THEN B ELSE Overwrite(B, o, Take(cat0, n)))
                 /\ n = 0 => cat0 = <<>>
            /\ ~last.res.ok => content = B

C15_Witness ==
  /\ kind = "Slice" /\ last.op = "read_vectored_at" /\ last.st = "returned"
  /\ Len(last.before) = 2
  /\ last.before[1] = <<>>
  /\ Len(last.before[2]) = MaxBuf
  /\ last.res = Ok(MaxBuf)
  /\ last.after[2] # last.before[2]

\* C28: on a byte slice B the specialised read_exact_at gives the outcome and
\* the buffer contents that the default read_exact_at gives when run over the
\* slice's own read_at, for every buffer length (0 included) and every offset
\* (offsets beyond len(B) included).
C28_SameAsDefault ==
  (kind = "Slice" /\ last.op = "read_exact_at" /\ last.st = "returned") =>
    [res |-> last.res, after |-> last.after[1]]
      \in default_read_exact_at_slice(last.content0, last.before[1], 0, last.off)

\* an empty buffer at an offset beyond the end: the specialised form fails
\* with UnexpectedEof, the default loop makes no call and succeeds
C28_EmptyBeyondEnd ==
  /\ kind = "Slice" /\ last.op = "read_exact_at" /\ last.st = "returned"
  /\ last.before[1] = <<>> /\ last.off > Len(last.content0)
  /\ last.res = fill_buffer_error
  /\ default_read_exact_at_slice(last.content0, <<>>, 0, last.off) = {[res |-> Ok(0), after |-> <<>>]}

\* ========================================================== claims, SpecLoop
\* C13: the default read_exact_at retries an Interrupted result with the same
\* buffer at the same offset; returns the first other error at once; returns
\* UnexpectedEof when the primitive returns 0 on a buffer not yet full;
\* returns Ok exactly when the counts add up to len(buf); and returns Ok
\* without a call of the primitive when buf is empty.
C13_DefaultReadExactAt ==
  LET p == pc[1] IN
  (p.op = "read_exact_at") =>
    /\ (p.lastres = Err("Interrupted")) => (p.st = "loop" /\ p.rem = p.asked /\ p.off = p.at)
    /\ (p.st = "returned" /\ ~p.ret.ok) =>
         \/ p.lastres = Ok(0) /\ p.rem # <<>> /\ p.ret = fill_buffer_error
         \/ ~p.lastres.ok /\ p.lastres # Err("Interrupted") /\ p.ret = p.lastres
    /\ (p.called /\ p.st # "loop" /\ ~p.lastres.ok) => p.ret = p.lastres
    /\ (p.called /\ p.lastres = Ok(0)) => p.ret = fill_buffer_error
    /\ (p.st = "returned" /\ p.ret.ok) => p.rem = <<>>
    /\ (p.rem = <<>> /\ p.st # "loop") => (p.st = "returned" /\ p.ret.ok)
    /\ (p.buf0 = <<>>) => ~p.called

\* where the counts add up to len(buf) and the call panics instead of returning
C13_Overflow ==
  /\ pc[1].op = "read_exact_at"
  /\ pc[1].st = "panicked"
  /\ pc[1].rem = <<>>
  /\ pc[1].at + Len(pc[1].asked) > MaxU64

\* C14: the default write_all_at retries an Interrupted result without
\* advancing; fails with WriteZero as soon as the primitive returns 0 for a
\* non-empty rest; returns the first other error at once; returns Ok only when
\* all of buf has been accepted; and every call of the primitive is made at
\* offset + (bytes accepted so far) with exactly the rest of buf.
C14_DefaultWriteAllAt ==
  LET p == pc[1]
      done == Len(p.buf0) - Len(p.asked)
  IN (p.op = "write_all_at") =>
       /\ (p.lastres = Err("Interrupted")) => (p.st = "loop" /\ p.rem = p.asked /\ p.off = p.at)
       /\ (p.called /\ p.lastres = Ok(0)) => (p.st = "returned" /\ p.ret = write_buffer_error)
       /\ (p.called /\ ~p.lastres.ok /\ p.lastres # Err("Interrupted")) =>
            (p.st = "returned" /\ p.ret = p.lastres)
       /\ (p.st = "returned" /\ p.ret.ok) => p.rem = <<>>
       /\ p.called => (p.asked = Drop_front(p.buf0, done) /\ p.at = p.off0 + done)

\* where a call of the primitive is made at (offset + accepted) mod 2^64
C14_Overflow ==
  /\ pc[1].op = "write_all_at"
  /\ pc[1].called
  /\ pc[1].at < pc[1].off0
  /\ pc[1].at = (pc[1].off0 + Len(pc[1].buf0) - Len(pc[1].asked)) % (MaxU64 + 1)
\* C25: in the default read_exact_at and write_all_at every result of the
\* primitive other than Interrupted ends the call or strictly shortens the
\* rest of the buffer; at most len(buf) calls of the primitive transfer
\* something; and, the primitive not answering Interrupted forever, the call
\* eventually returns.
C25_Terminates ==
  /\ [][ (pc[1].st = "loop" /\ pc'[1].lastres # Err("Interrupted")) =>
           (pc'[1].st # "loop" \/ Len(pc'[1].rem) < Len(pc[1].rem)) ]_vars
  /\ [](pc[1].made <= Len(pc[1].buf0))
  /\ <>(pc[1].st = "returned")

\* the call has ended without returning: `offset += n` overflowed after the
\* last byte was transferred at the largest offset
C25_Aborted ==
  /\ pc[1].st = "panicked"
  /\ pc[1].made = Len(pc[1].buf0)
  /\ pc[1].at = MaxU64

\* C26: in the default read_exact_at over a source that does not change, each
\* call of the primitive is made at offset + (bytes read so far) with exactly
\* the unfilled rest of buf, and when the call returns Ok the bytes in buf
\* are, in order, those of the source at offset .. offset + len(buf).
C26_ReadsInOrder ==
  LET p == pc[1]
      done == Len(p.buf0) - Len(p.asked)
  IN (p.op = "read_exact_at" /\ \A i \in 1..Len(p.moved) : p.moved[i] # -1) =>
       /\ p.called => (p.at = p.off0 + done /\ p.asked = Drop_front(p.buf0, done))
       /\ (p.st = "returned" /\ p.ret.ok) =>
            p.moved = [i \in 1..Len(p.buf0) |-> p.off0 + i - 1]

\* Ok was returned with a byte of the source's start stored after the byte
\* at the largest offset
C26_Wrapped ==
  /\ pc[1].op = "read_exact_at" /\ pc[1].st = "returned" /\ pc[1].ret.ok
  /\ pc[1].off0 = MaxU64 /\ pc[1].moved = <<MaxU64, 0>>

\* ====================================================== claims, SpecFallback
\* no handle besides the first drives the OS cursor
OneHandle == alive = {1}

\* C16: on the fallback path a read_at / write_at on a RandomAccessFile is
\* atomic with respect to every other call on the same handle: two calls on one
\* handle (positional, with_file maintenance, SyncFile's seek from the end) are
\* never inside the Mutex together, the caller inside it is the one that holds
\* it, and while only that handle drives the OS cursor a call that has
\* repositioned finds the cursor at its offset when it transfers.
C16_CallAtomicOnHandle ==
  /\ \A t \in Clones : \A u \in Clones \ {t} :
       (InCS(pc[t]) /\ InCS(pc[u])) => pc[t].h # pc[u].h
  /\ \A t \in Clones : InCS(pc[t]) => lock[pc[t].h].owner = t
  /\ \A t \in Clones :
       (pc[t].st = "positioned" /\ OneHandle) => cursor = pc[t].off + pc[t].k

\* thread 1 has repositioned for read_at(buf, 1) after the other thread's call
\* left the cursor elsewhere, and the other thread waits on the same handle
C16_Witness ==
  /\ OneHandle
  /\ pc[1].st = "positioned" /\ pc[1].op = "read_at" /\ pc[1].off = 1 /\ cursor = 1
  /\ pc[2].st = "idle" /\ pc[2].h = pc[1].h
  /\ content # <<>>

\* C17 (as the code has it): on the fallback path read_exact_at and
\* write_all_at hold the handle's Mutex from the reposition to the last
\* underlying transfer, so between two of the transfers no other call on the
\* same handle takes effect: while only that handle drives the OS cursor, the
\* cursor stays where the last transfer left it, the bytes read so far are the
\* file's bytes and the bytes written so far are still in the file.
C17_ExactHoldsGuard ==
  \A t \in Clones :
    LET p == pc[t] IN
    (p.st = "positioned" /\ p.op \in LoopOps /\ p.k > 0) =>
      /\ lock[p.h].owner = t
      /\ OneHandle =>
           /\ cursor = p.off + p.k
           /\ p.op = "read_exact_at" => p.data = Slice(content, p.off, p.k)
           /\ p.op = "write_all_at" => Slice(content, p.off, p.k) = Take(p.buf, p.k)

\* a read_exact_at is between two underlying transfers while the other thread
\* waits to call the same handle
C17_Witness ==
  /\ OneHandle
  /\ pc[1].st = "positioned" /\ pc[1].op = "read_exact_at" /\ pc[1].k = 1
  /\ pc[2].st = "idle" /\ pc[2].h = pc[1].h

\* C17 (as stated): a multi-step operation is atomic only per underlying
\* transfer, so between two underlying transfers of a read_exact_at or
\* write_all_at the handle's Mutex is free for a concurrent write_at on the
\* same handle to take effect.
C17_AtomicPerTransferOnly ==
  \A t \in Clones :
    (pc[t].st = "positioned" /\ pc[t].op \in LoopOps /\ pc[t].k > 0) =>
      lock_acquirable(lock[pc[t].h].owner)

\* C18: for all handles that drive the same OS cursor (a RandomAccessFile and
\* the handle made from it by try_clone) no reposition + transfer pair is
\* interleaved with another call's: a read_at(buf, o) or write_at(buf, o) that
\* has repositioned finds the cursor at o when it transfers.
C18_TransfersAtOffset ==
  \A t \in Clones :
    (pc[t].st = "positioned" /\ pc[t].op \in {"read_at", "write_at"}) => cursor = pc[t].off

\* both threads are between reposition and transfer, each on its own handle,
\* and the cursor is not where thread 1's read_at put it
C18_Interleaved ==
  /\ pc[1].h # pc[2].h
  /\ pc[1].st = "positioned" /\ pc[1].op = "read_at"
  /\ pc[2].st = "positioned"
  /\ cursor # pc[1].off

\* C19: a panic of a thread that holds the handle's Mutex never stops the
\* later calls: the Mutex is never left held by a thread that is gone, and a
\* thread only ever panics inside a call (while it holds the guard), never on
\* taking a poisoned Mutex or on into_inner of one.
C19_PoisonIgnored ==
  /\ [](\A h \in Handles : lock[h].owner # 0 =>
          (InCS(pc[lock[h].owner]) /\ pc[lock[h].owner].h = h))
  /\ [][\A t \in Clones :
          (pc'[t].st = "panicked" /\ pc[t].st # "panicked") => InCS(pc[t])]_vars

\* thread 2 panicked with the guard of the handle; thread 1 has since taken the
\* poisoned Mutex and repositioned
C19_Witness ==
  /\ pc[2].st = "panicked" /\ pc[2].h = pc[1].h
  /\ lock[pc[1].h].poisoned /\ lock[pc[1].h].owner = 1
  /\ pc[1].st = "positioned"

====
